---- MODULE Spec2Model ----
(***************************************************************************)
(* A model of the statistics teaching portal (hawkarabdulhaq/statistics):  *)
(* the fossil-probability page (prob.py) and the probability-axioms page   *)
(* (axiom.py).  Python floats are IEEE-754 binary64 values; they are       *)
(* modelled bit-exactly (53-bit significand, round to nearest, ties to     *)
(* even) on top of a small arbitrary-precision natural-number layer,       *)
(* because several properties of the pages depend on rounding.             *)
(***************************************************************************)
EXTENDS Integers, Sequences, FiniteSets, TLC

(***************************************************************************)
(* Arbitrary-precision naturals: a sequence of limbs, least significant    *)
(* first, each limb in 0..Base-1, without a most-significant zero limb.    *)
(* The number zero is the empty sequence.                                  *)
(***************************************************************************)
LimbBits == 15

Base == 2^LimbBits

Limb(x, i) == IF i <= Len(x) THEN x[i] ELSE 0

\* F(x) with x evaluated once (x is bound as a value, not as an expression)
Bind(x, F(_)) == CHOOSE r \in {F(v) : v \in {x}} : TRUE

RECURSIVE BNorm(_)
BNorm(x) ==
  IF Len(x) > 0 /\ x[Len(x)] = 0 THEN BNorm(SubSeq(x, 1, Len(x) - 1)) ELSE x

RECURSIVE BFromInt(_)
BFromInt(n) == IF n = 0 THEN <<>> ELSE <<n % Base>> \o BFromInt(n \div Base)

RECURSIVE BAddFrom(_, _, _, _)
BAddFrom(x, y, i, c) ==
  IF i > Len(x) /\ i > Len(y)
  THEN (IF c = 0 THEN <<>> ELSE <<c>>)
  ELSE Bind(Limb(x, i) + Limb(y, i) + c, LAMBDA s :
         <<s % Base>> \o BAddFrom(x, y, i + 1, s \div Base))

BAdd(x, y) == BAddFrom(x, y, 1, 0)

RECURSIVE BSubFrom(_, _, _, _)
BSubFrom(x, y, i, b) ==
  IF i > Len(x)
  THEN <<>>
  ELSE Bind(Limb(x, i) - Limb(y, i) - b, LAMBDA d :
         <<IF d < 0 THEN d + Base ELSE d>>
           \o BSubFrom(x, y, i + 1, IF d < 0 THEN 1 ELSE 0))

\* x - y for x >= y
BSub(x, y) == BNorm(BSubFrom(x, y, 1, 0))

RECURSIVE BCmpFrom(_, _, _)
BCmpFrom(x, y, i) ==
  IF i = 0 THEN 0
  ELSE IF x[i] < y[i] THEN -1
  ELSE IF x[i] > y[i] THEN 1
  ELSE BCmpFrom(x, y, i - 1)

\* -1, 0 or 1 as x < y, x = y, x > y
BCmp(x, y) ==
  IF Len(x) < Len(y) THEN -1
  ELSE IF Len(x) > Len(y) THEN 1
  ELSE BCmpFrom(x, y, Len(x))

RECURSIVE BMulFrom(_, _, _, _)
BMulFrom(x, c, i, carry) ==
  IF i > Len(x)
  THEN (IF carry = 0 THEN <<>> ELSE <<carry>>)
  ELSE Bind(x[i] * c + carry, LAMBDA p :
         <<p % Base>> \o BMulFrom(x, c, i + 1, p \div Base))

\* x * c for a single limb c
BMulSmall(x, c) == IF c = 0 THEN <<>> ELSE BMulFrom(x, c, 1, 0)

RECURSIVE BDivFrom(_, _, _, _)
\* the limbs of x from the most significant down, r the remainder so far
BDivFrom(x, c, i, r) ==
  IF i = 0
  THEN [q |-> <<>>, r |-> r]
  ELSE Bind(r * Base + x[i], LAMBDA cur :
       Bind(BDivFrom(x, c, i - 1, cur % c), LAMBDA rest :
         [q |-> Append(rest.q, cur \div c), r |-> rest.r]))

\* quotient and remainder of x by a single limb c > 0
BDivSmall(x, c) ==
  Bind(BDivFrom(x, c, Len(x), 0), LAMBDA d : [q |-> BNorm(d.q), r |-> d.r])

Zeros(k) == [i \in 1..k |-> 0]

\* x * 2^k
BShl(x, k) ==
  IF x = <<>> THEN <<>>
  ELSE Zeros(k \div LimbBits) \o BMulSmall(x, 2^(k % LimbBits))

\* floor(x / 2^k)
BShr(x, k) ==
  LET drop == k \div LimbBits
  IN  IF drop >= Len(x) THEN <<>>
      ELSE BDivSmall(SubSeq(x, drop + 1, Len(x)), 2^(k % LimbBits)).q

\* x mod 2^k # 0
BLowNonZero(x, k) ==
  LET drop == k \div LimbBits
  IN  \/ \E i \in 1..drop : Limb(x, i) # 0
      \/ Limb(x, drop + 1) % (2^(k % LimbBits)) # 0

\* bit k of x (bit 0 is the least significant)
BBit(x, k) == (Limb(x, (k \div LimbBits) + 1) \div (2^(k % LimbBits))) % 2

RECURSIVE IntBitLen(_)
IntBitLen(n) == IF n = 0 THEN 0 ELSE 1 + IntBitLen(n \div 2)

BBitLen(x) ==
  IF x = <<>> THEN 0 ELSE LimbBits * (Len(x) - 1) + IntBitLen(x[Len(x)])

(***************************************************************************)
(* Python numbers.  A value is a record [t, s, m, e]: t is "int" or        *)
(* "float", and the number is (-1)^s * m * 2^e with m an arbitrary-        *)
(* precision natural.  An int has e = 0; a non-zero float has a            *)
(* significand m of exactly MantBits bits.  Exponent overflow and          *)
(* subnormals do not occur for the magnitudes the pages compute.           *)
(***************************************************************************)
MantBits == 53

PyInt(n) ==
  [t |-> "int", s |-> IF n < 0 THEN 1 ELSE 0,
   m |-> BFromInt(IF n < 0 THEN -n ELSE n), e |-> 0]

FloatZero == [t |-> "float", s |-> 0, m |-> <<>>, e |-> 0]

IsZero(v) == v.m = <<>>

Float(s, m, e) == [t |-> "float", s |-> s, m |-> m, e |-> e]

\* The significand q of d dropped bits rounded up or not: half-way cases go
\* to the even significand
RoundUp(M, d, q, sticky) ==
  BBit(M, d - 1) = 1 /\ (BLowNonZero(M, d - 1) \/ sticky \/ BBit(q, 0) = 1)

\* The binary64 nearest to (-1)^s * (M + f) * 2^e, where 0 <= f < 1 and
\* f # 0 iff sticky; ties go to the even significand.
RoundNE(s, M, e, sticky) ==
  Bind(BBitLen(M), LAMBDA L :
    IF L = 0 THEN FloatZero
    ELSE IF L <= MantBits
    THEN Float(s, BShl(M, MantBits - L), e - (MantBits - L))
    ELSE Bind(BShr(M, L - MantBits), LAMBDA q :
         Bind(IF RoundUp(M, L - MantBits, q, sticky)
              THEN BAdd(q, <<1>>) ELSE q, LAMBDA m1 :
           IF BBitLen(m1) > MantBits
           THEN Float(s, BShr(m1, 1), e + (L - MantBits) + 1)
           ELSE Float(s, m1, e + (L - MantBits)))))

\* float(v): an int converted to the nearest float (exact below 2^53)
ToFloat(v) == IF v.t = "float" THEN v ELSE RoundNE(v.s, v.m, v.e, FALSE)

\* One more quotient bit of a long division by d: the quotient st.q and the
\* remainder st.r < d so far
DivStep(st, d) ==
  Bind(BMulSmall(st.r, 2), LAMBDA r2 :
    IF BCmp(r2, d) >= 0
    THEN [q |-> BAdd(BMulSmall(st.q, 2), <<1>>), r |-> BSub(r2, d)]
    ELSE [q |-> BMulSmall(st.q, 2), r |-> r2])

RECURSIVE DivBits(_, _, _)
\* k more quotient bits
DivBits(st, d, k) ==
  IF k = 0 THEN st
  ELSE Bind(DivStep(st, d), LAMBDA nx : DivBits(nx, d, k - 1))

\* floor(mx * 2^55 / my) and what is left, for two significands of
\* MantBits bits (so that mx < 2 * my): five runs of 11 bits
DivMant(mx, my) ==
  Bind(IF BCmp(mx, my) >= 0
       THEN [q |-> <<1>>, r |-> BSub(mx, my)]
       ELSE [q |-> <<>>, r |-> mx], LAMBDA s0 :
  Bind(DivBits(s0, my, 11), LAMBDA s1 :
  Bind(DivBits(s1, my, 11), LAMBDA s2 :
  Bind(DivBits(s2, my, 11), LAMBDA s3 :
  Bind(DivBits(s3, my, 11), LAMBDA s4 : DivBits(s4, my, 11))))))

\* fx / fy for two floats, fy # 0
FloatDiv(fx, fy) ==
  IF IsZero(fx) THEN FloatZero
  ELSE Bind(DivMant(fx.m, fy.m), LAMBDA d :
         RoundNE((fx.s + fy.s) % 2, d.q, fx.e - fy.e - 55, d.r # <<>>))

\* fx / c for a float and a positive int c of one limb: the quotient of
\* the significand, extended by 60 bits, rounded once
FloatDivSmall(fx, c) ==
  IF IsZero(fx) THEN FloatZero
  ELSE Bind(BDivSmall(Zeros(4) \o fx.m, c), LAMBDA d :
         RoundNE(fx.s, d.q, fx.e - 4 * LimbBits, d.r # 0))

\* x / y (true division) for y # 0: both operands are converted to float
FDiv(x, y) ==
  Bind(ToFloat(x), LAMBDA fx :
    IF y.t = "int" /\ y.s = 0 /\ Len(y.m) = 1
    THEN FloatDivSmall(fx, y.m[1])
    ELSE Bind(ToFloat(y), LAMBDA fy : FloatDiv(fx, fy)))

\* the exact value of v with its significand aligned to exponent e0 <= v.e
Aligned(v, e0) == BShl(v.m, v.e - e0)

\* -1, 0, 1 as |x| < |y|, |x| = |y|, |x| > |y|
CmpAbs(x, y) ==
  IF IsZero(x) THEN (IF IsZero(y) THEN 0 ELSE -1)
  ELSE IF IsZero(y) THEN 1
  ELSE Bind(IF x.e < y.e THEN x.e ELSE y.e, LAMBDA e0 :
       Bind(Aligned(x, e0), LAMBDA X :
       Bind(Aligned(y, e0), LAMBDA Y : BCmp(X, Y))))

\* -1, 0, 1 as x < y, x = y, x > y for two values
SignedCmp(x, y) ==
  LET sx == IF IsZero(x) THEN 0 ELSE x.s
      sy == IF IsZero(y) THEN 0 ELSE y.s
  IN  IF sx # sy THEN (IF sx = 1 THEN -1 ELSE 1)
      ELSE IF sx = 0 THEN CmpAbs(x, y) ELSE CmpAbs(y, x)

\* numeric comparison of two Python numbers (int or float): exact
NumCmp(x, y) == Bind(x, LAMBDA vx : Bind(y, LAMBDA vy : SignedCmp(vx, vy)))

NumEq(x, y) == NumCmp(x, y) = 0

NumLeq(x, y) == NumCmp(x, y) <= 0

\* the exact sum of two values as [s, m, e]
ExactAdd(x, y) ==
  IF IsZero(x) THEN [s |-> y.s, m |-> y.m, e |-> y.e]
  ELSE IF IsZero(y) THEN [s |-> x.s, m |-> x.m, e |-> x.e]
  ELSE Bind(IF x.e < y.e THEN x.e ELSE y.e, LAMBDA e0 :
       Bind(Aligned(x, e0), LAMBDA X :
       Bind(Aligned(y, e0), LAMBDA Y :
         IF x.s = y.s THEN [s |-> x.s, m |-> BAdd(X, Y), e |-> e0]
         ELSE IF BCmp(X, Y) >= 0 THEN [s |-> x.s, m |-> BSub(X, Y), e |-> e0]
         ELSE [s |-> y.s, m |-> BSub(Y, X), e |-> e0])))

Neg(x) == [x EXCEPT !.s = IF IsZero(x) THEN 0 ELSE 1 - x.s]

\* fx + fy for two floats
FloatAdd(fx, fy) ==
  Bind(ExactAdd(fx, fy), LAMBDA r : RoundNE(r.s, r.m, r.e, FALSE))

\* x + y in float arithmetic
FAdd(x, y) ==
  Bind(ToFloat(x), LAMBDA fx : Bind(ToFloat(y), LAMBDA fy : FloatAdd(fx, fy)))

\* x - y in float arithmetic
FSub(x, y) ==
  Bind(ToFloat(x), LAMBDA fx :
    Bind(ToFloat(y), LAMBDA fy : FloatAdd(fx, Neg(fy))))

(***************************************************************************)
(* Bounds of the model.                                                    *)
(***************************************************************************)
\* create_dataset is called with num_layers in 0..MaxLayers (every shuffle
\* outcome is explored), and with the 12-layer scenario of the page.
MaxLayers == 3

\* calculate_probabilities is also called on every caller-made table of at
\* most MaxRows rows.
MaxRows == 5

(***************************************************************************)
(* numpy and pandas as the pages use them.                                 *)
(***************************************************************************)
Min(a, b) == IF a < b THEN a ELSE b

Range(s) == {s[i] : i \in DOMAIN s}

\* s[:k] and s[k:] for k >= 0 (a slice past the end is cut, never an error)
Take(s, k) == SubSeq(s, 1, Min(k, Len(s)))

Drop(s, k) == SubSeq(s, Min(k, Len(s)) + 1, Len(s))

\* np.arange(n) after np.random.shuffle: the arrays a shuffle can leave.
\* Up to MaxLayers elements every permutation is an outcome of the model;
\* a longer array is left rotated, or reversed and rotated.
ShuffleOutcomes(n) ==
  IF n <= MaxLayers
  THEN {[i \in 1..n |-> p[i] - 1] : p \in Permutations(1..n)}
  ELSE {[i \in 1..n |-> (b + i - 1) % n] : b \in 0..(n - 1)}
       \cup {[i \in 1..n |-> (b + n - i) % n] : b \in 0..(n - 1)}

Digit == <<"0", "1", "2", "3", "4", "5", "6", "7", "8", "9">>

RECURSIVE Str(_)
\* f"{i}" for i >= 0
Str(i) == IF i < 10 THEN Digit[i + 1] ELSE Str(i \div 10) \o Digit[(i % 10) + 1]

\* A DataFrame: its column names in order, and one sequence of values per
\* column (row r of the table is element r of each column).
NoDataFrame == [exists |-> FALSE, columns |-> <<>>, data |-> <<>>]

DataFrame(columns, data) == [exists |-> TRUE, columns |-> columns, data |-> data]

ColumnIndex(df, name) == CHOOSE k \in 1..Len(df.columns) : df.columns[k] = name

HasColumn(df, name) == \E k \in 1..Len(df.columns) : df.columns[k] = name

\* df[name]
Column(df, name) == df.data[ColumnIndex(df, name)]

\* len(df)
NumRows(df) == IF Len(df.data) = 0 THEN 0 ELSE Len(df.data[1])

\* df[name] = values, in place: a new column is appended, an existing one
\* is replaced
SetColumn(df, name, values) ==
  IF HasColumn(df, name)
  THEN [df EXCEPT !.data[ColumnIndex(df, name)] = values]
  ELSE [df EXCEPT !.columns = Append(@, name), !.data = Append(@, values)]

\* series.sum() of a boolean column
RECURSIVE CountTrue(_)
CountTrue(col) ==
  IF col = <<>> THEN 0 ELSE (IF Head(col) THEN 1 ELSE 0) + CountTrue(Tail(col))

(***************************************************************************)
(* prob.py: the fossil co-occurrence page.                                 *)
(***************************************************************************)
\* The scenario of the page: the values its sliders start with.
ScenarioLayers == 12

ScenarioA == 6

ScenarioB == 6

ScenarioOverlap == 3

NoError == ""

OverlapError == "ValueError: Overlap cannot exceed either count_A or count_B."

CountsError == "ValueError: Counts cannot exceed the total number of layers."

\* The "Basic validation" of create_dataset: the exception it raises, or
\* NoError
\* The validation without its check of count_sandstone
ValidateNoSandstone(num_layers, count_A, count_B, overlap_AB, count_sandstone) ==
  IF overlap_AB > count_A \/ overlap_AB > count_B THEN OverlapError
  ELSE IF count_A > num_layers \/ count_B > num_layers THEN CountsError
  ELSE NoError

Validate(num_layers, count_A, count_B, overlap_AB, count_sandstone) ==
  IF overlap_AB > count_A \/ overlap_AB > count_B THEN OverlapError
  ELSE IF count_A > num_layers \/ count_B > num_layers
          \/ count_sandstone > num_layers THEN CountsError
  ELSE NoError

\* for idx in idxs: flags[idx] = True   (flags[idx] is element idx + 1)
SetTrue(flags, idxs) ==
  [i \in 1..Len(flags) |-> flags[i] \/ (i - 1) \in Range(idxs)]

AllFalse(n) == [i \in 1..n |-> FALSE]

\* The assignment that forgets to drop the A-only indices from the
\* remaining ones, so that the B-only layers are taken among them
AssignFossilsKeepRemaining(num_layers, count_A, count_B, overlap_AB, indices) ==
  LET overlap_indices == Take(indices, overlap_AB)
      remaining0      == Drop(indices, overlap_AB)
      needed_A_only   == count_A - overlap_AB
      A_only_indices  == IF needed_A_only > 0
                         THEN Take(remaining0, needed_A_only) ELSE <<>>
      needed_B_only   == count_B - overlap_AB
      B_only_indices  == IF needed_B_only > 0
                         THEN Take(remaining0, needed_B_only) ELSE <<>>
  IN  [fossilA |-> SetTrue(SetTrue(AllFalse(num_layers), overlap_indices),
                           A_only_indices),
       fossilB |-> SetTrue(SetTrue(AllFalse(num_layers), overlap_indices),
                           B_only_indices)]

\* Steps 1-4 of create_dataset: the fossil flags, given the shuffled indices
AssignFossils(num_layers, count_A, count_B, overlap_AB, indices) ==
  LET overlap_indices == Take(indices, overlap_AB)
      remaining0      == Drop(indices, overlap_AB)
      needed_A_only   == count_A - overlap_AB
      A_only_indices  == IF needed_A_only > 0
                         THEN Take(remaining0, needed_A_only) ELSE <<>>
      remaining1      == IF needed_A_only > 0
                         THEN Drop(remaining0, needed_A_only) ELSE remaining0
      needed_B_only   == count_B - overlap_AB
      B_only_indices  == IF needed_B_only > 0
                         THEN Take(remaining1, needed_B_only) ELSE <<>>
  IN  [fossilA |-> SetTrue(SetTrue(AllFalse(num_layers), overlap_indices),
                           A_only_indices),
       fossilB |-> SetTrue(SetTrue(AllFalse(num_layers), overlap_indices),
                           B_only_indices)]

\* Step 5 of create_dataset: the sandstone flags, given the second shuffle
AssignSandstone(num_layers, count_sandstone, all_indices) ==
  SetTrue(AllFalse(num_layers), Take(all_indices, count_sandstone))

YesNo(flags) == [i \in 1..Len(flags) |-> IF flags[i] THEN "Yes" ELSE "No"]

\* The DataFrame create_dataset builds from its flags
BuildDataset(num_layers, fossilA, fossilB, sandstone_flags) ==
  DataFrame(<<"LayerID", "FossilA", "FossilB", "Sandstone">>,
            <<[i \in 1..num_layers |-> Str(i)], YesNo(fossilA),
              YesNo(fossilB), YesNo(sandstone_flags)>>)

\* The locals of create_dataset before step 1
Unassigned == [assigned |-> FALSE, fossilA |-> <<>>, fossilB |-> <<>>,
               sandstone_flags |-> <<>>]

\* series.apply(lambda x: x == 'Yes')
IsYes(col) == [i \in 1..Len(col) |-> col[i] = "Yes"]

\* (df['HasA']) & (df['HasB'])
BothTrue(a, b) == [i \in 1..Len(a) |-> a[i] /\ b[i]]

\* The sum that counts the layers with both fossils twice
AdditionRuleNoSubtraction(pA, pB, pA_and_B) == FAdd(pA, pB)

\* pA_or_B = pA + pB - pA_and_B
AdditionRule(pA, pB, pA_and_B) == FSub(FAdd(pA, pB), pA_and_B)

\* pB_given_A = pA_and_B / pA if pA != 0 else 0.0
Conditional(pA_and_B, pA) ==
  IF ~IsZero(pA) THEN FDiv(pA_and_B, pA) ELSE FloatZero

\* The dictionary calculate_probabilities returns, from its counts.  The
\* fields stand for the keys 'P(A)', 'P(B)', 'P(A and B)', 'P(A or B)' and
\* 'P(B|A)' of the dictionary, in that order.
Measures(total_layers, A_count, B_count, AB_count) ==
  IF total_layers = 0
  THEN [pA |-> PyInt(0), pB |-> PyInt(0), pA_and_B |-> PyInt(0),
        pA_or_B |-> PyInt(0), pB_given_A |-> PyInt(0)]
  ELSE Bind(FDiv(PyInt(A_count), PyInt(total_layers)), LAMBDA pA :
       Bind(FDiv(PyInt(B_count), PyInt(total_layers)), LAMBDA pB :
       Bind(FDiv(PyInt(AB_count), PyInt(total_layers)), LAMBDA pA_and_B :
         [pA |-> pA, pB |-> pB, pA_and_B |-> pA_and_B,
          pA_or_B |-> AdditionRule(pA, pB, pA_and_B),
          pB_given_A |-> Conditional(pA_and_B, pA)])))

NoResult == [returned |-> FALSE]

MaxCount == IF MaxRows > MaxLayers THEN MaxRows ELSE MaxLayers

\* Measures, evaluated once for the counts of every table of at most
\* MaxCount rows, and once for the scenario of the page
MeasuresTable ==
  [n \in 0..MaxCount |-> [a \in 0..n |-> [b \in 0..n |->
     [ab \in 0..Min(a, b) |->
        IF a + b - ab <= n THEN Measures(n, a, b, ab) ELSE NoResult]]]]

ScenarioMeasures ==
  Measures(ScenarioLayers, ScenarioA, ScenarioB, ScenarioOverlap)

MeasuresOf(total_layers, A_count, B_count, AB_count) ==
  IF total_layers <= MaxCount
  THEN MeasuresTable[total_layers][A_count][B_count][AB_count]
  ELSE IF <<total_layers, A_count, B_count, AB_count>>
          = <<ScenarioLayers, ScenarioA, ScenarioB, ScenarioOverlap>>
  THEN ScenarioMeasures
  ELSE Measures(total_layers, A_count, B_count, AB_count)

\* calculate_probabilities(df): the table as the call leaves it, and the
\* dictionary returned
calculate_probabilities(df) ==
  LET total_layers == NumRows(df)
      df1      == SetColumn(df, "HasA", IsYes(Column(df, "FossilA")))
      df2      == SetColumn(df1, "HasB", IsYes(Column(df1, "FossilB")))
      A_count  == CountTrue(Column(df2, "HasA"))
      B_count  == CountTrue(Column(df2, "HasB"))
      AB_count == CountTrue(BothTrue(Column(df2, "HasA"), Column(df2, "HasB")))
  IN  [df |-> df2,
       result |-> MeasuresOf(total_layers, A_count, B_count, AB_count)]

(***************************************************************************)
(* axiom.py: the probability-axioms page (ore-grade drill holes).          *)
(***************************************************************************)
\* generate_random_drillholes is called with total_holes in 0..MaxHoles
\* (every shuffle outcome is explored), and with two longer examples.
MaxHoles == 3

\* np.random.randint(RandintLow, RandintHigh, size): RandintHigh is excluded
RandintLow == -50

RandintHigh == 51

\* The arrays np.random.randint can return: each element is the lowest or
\* the highest value; an array longer than MaxHoles is constant.
RandintOutcomes(size) ==
  IF size <= MaxHoles
  THEN [1..size -> {RandintLow, RandintHigh - 1}]
  ELSE {[i \in 1..size |-> c] : c \in {RandintLow, RandintHigh - 1}}

Repeat(label, n) == [i \in 1..n |-> label]

\* np.random.shuffle(list) leaving the elements in the order p
Shuffled(list, p) == [i \in 1..Len(list) |-> list[p[i] + 1]]

\* The labels without the 'Unassigned' fill
GradeLabelsNoRemainder(total_holes, n_high, n_medium, n_low) ==
  Repeat("High", n_high) \o Repeat("Medium", n_medium)
  \o Repeat("Low", n_low)

\* The labels of generate_random_drillholes before the shuffle
GradeLabels(total_holes, n_high, n_medium, n_low) ==
  LET grade_labels == Repeat("High", n_high) \o Repeat("Medium", n_medium)
                      \o Repeat("Low", n_low)
      remainder    == total_holes - Len(grade_labels)
  IN  IF remainder > 0
      THEN grade_labels \o Repeat("Unassigned", remainder)
      ELSE grade_labels

LengthError == "ValueError: All arrays must be of the same length"

\* pd.DataFrame(data) for a dictionary of arrays: columns of different
\* lengths are refused
PandasDataFrame(columns, data) ==
  IF \A j, k \in 1..Len(data) : Len(data[j]) = Len(data[k])
  THEN [err |-> NoError, df |-> DataFrame(columns, data)]
  ELSE [err |-> LengthError, df |-> NoDataFrame]

\* generate_random_drillholes, given what the random source produces
generate_random_drillholes(total_holes, n_high, n_medium, n_low, p, x_coords, y_coords) ==
  LET grade_labels ==
        Shuffled(GradeLabels(total_holes, n_high, n_medium, n_low), p)
  IN  PandasDataFrame(
        <<"Drill Hole", "Grade Category", "X_Coord", "Y_Coord">>,
        <<[i \in 1..total_holes |-> "Hole_" \o Str(i)], grade_labels,
          x_coords, y_coords>>)

SumError == "Sum of High, Medium, and Low cannot exceed the total number of holes!"

\* A check that looks at the High count alone
SumExceedsHighOnly(total_holes, n_high, n_medium, n_low) ==
  n_high > total_holes

\* The check of main before it generates the drill holes
SumExceeds(total_holes, n_high, n_medium, n_low) ==
  (n_high + n_medium + n_low) > total_holes

(***************************************************************************)
(* numpy element arithmetic, as the fuzzy membership functions of          *)
(* tutorial7.py and tutorial8.py use it.  An array has a dtype, "int64" or *)
(* "float64", and its elements are Python numbers of that type.            *)
(***************************************************************************)
FloatOne == ToFloat(PyInt(1))

\* x - y: an int when both are ints, a float otherwise
NumSub(x, y) ==
  IF x.t = "int" /\ y.t = "int"
  THEN Bind(ExactAdd(x, Neg(y)), LAMBDA r :
         [t |-> "int", s |-> IF r.m = <<>> THEN 0 ELSE r.s, m |-> r.m,
          e |-> 0])
  ELSE FSub(x, y)

\* The cast of a float to int64 on assignment into an integer array: the
\* fraction is dropped (truncation toward zero)
Trunc(f) ==
  IF f.t = "int" THEN f
  ELSE Bind(IF f.e >= 0 THEN BShl(f.m, f.e) ELSE BShr(f.m, -f.e), LAMBDA m :
         [t |-> "int", s |-> IF m = <<>> THEN 0 ELSE f.s, m |-> m, e |-> 0])

\* The value v stored into an array of the given dtype
Cast(v, dtype) == IF dtype = "int64" THEN Trunc(v) ELSE ToFloat(v)

\* np.clip(v, 0, 1) for an element of an array of the given dtype
Clip01(v, dtype) ==
  IF NumCmp(v, PyInt(0)) < 0 THEN Cast(PyInt(0), dtype)
  ELSE IF NumCmp(v, PyInt(1)) > 0 THEN Cast(PyInt(1), dtype)
  ELSE v

\* The thresholds of the membership functions of tutorial8.py
Thresholds8 ==
  [low_full |-> 380, low_zero |-> 390,
   med_a |-> 380, med_peak |-> 395, med_b |-> 410,
   high_zero |-> 395, high_full |-> 405]

\* The thresholds of the membership functions of the script of tutorial7.py
Thresholds7 ==
  [low_full |-> 395, low_zero |-> 400,
   med_a |-> 395, med_peak |-> 400, med_b |-> 405,
   high_zero |-> 400, high_full |-> 405]

\* The falling line of low without np.clip
low_membership_unclipped(T, elev) ==
  IF NumLeq(elev, PyInt(T.low_full)) THEN FloatOne
  ELSE FDiv(NumSub(PyInt(T.low_zero), elev), PyInt(T.low_zero - T.low_full))

\* np.where(elev <= full, 1, np.clip((zero - elev) / (zero - full), 0, 1)),
\* for one element: the result array is float64
low_membership(T, elev) ==
  IF NumLeq(elev, PyInt(T.low_full)) THEN FloatOne
  ELSE Bind(FDiv(NumSub(PyInt(T.low_zero), elev),
                 PyInt(T.low_zero - T.low_full)), LAMBDA q :
         Clip01(q, "float64"))

\* The triangle whose rising mask leaves the peak out (elev < peak)
medium_membership_peak_excluded(T, elev, dtype) ==
  Bind(IF NumCmp(elev, PyInt(T.med_a)) > 0
          /\ NumCmp(elev, PyInt(T.med_peak)) < 0
       THEN Cast(FDiv(NumSub(elev, PyInt(T.med_a)),
                      PyInt(T.med_peak - T.med_a)), dtype)
       ELSE IF NumCmp(elev, PyInt(T.med_peak)) > 0
               /\ NumCmp(elev, PyInt(T.med_b)) < 0
       THEN Cast(FDiv(NumSub(PyInt(T.med_b), elev),
                      PyInt(T.med_b - T.med_peak)), dtype)
       ELSE Cast(PyInt(0), dtype), LAMBDA mem :
    Clip01(mem, dtype))

\* mem = np.zeros_like(elev); the two masked assignments; np.clip(mem, 0, 1),
\* for one element: mem has the dtype of elev, and what is assigned to it
\* is cast to that dtype
medium_membership(T, elev, dtype) ==
  Bind(IF NumCmp(elev, PyInt(T.med_a)) > 0
          /\ NumLeq(elev, PyInt(T.med_peak))
       THEN Cast(FDiv(NumSub(elev, PyInt(T.med_a)),
                      PyInt(T.med_peak - T.med_a)), dtype)
       ELSE IF NumCmp(elev, PyInt(T.med_peak)) > 0
               /\ NumCmp(elev, PyInt(T.med_b)) < 0
       THEN Cast(FDiv(NumSub(PyInt(T.med_b), elev),
                      PyInt(T.med_b - T.med_peak)), dtype)
       ELSE Cast(PyInt(0), dtype), LAMBDA mem :
    Clip01(mem, dtype))

\* The rising line of high started at the threshold where low is still full
high_membership_from_low_full(T, elev) ==
  IF NumLeq(elev, PyInt(T.low_full)) THEN FloatZero
  ELSE IF NumCmp(elev, PyInt(T.high_full)) >= 0 THEN FloatOne
  ELSE Bind(FDiv(NumSub(elev, PyInt(T.low_full)),
                 PyInt(T.high_full - T.low_full)), LAMBDA q :
         Clip01(q, "float64"))

\* np.where(elev <= zero, 0, np.where(elev >= full, 1,
\*          np.clip((elev - zero) / (full - zero), 0, 1))), for one element
high_membership(T, elev) ==
  IF NumLeq(elev, PyInt(T.high_zero)) THEN FloatZero
  ELSE IF NumCmp(elev, PyInt(T.high_full)) >= 0 THEN FloatOne
  ELSE Bind(FDiv(NumSub(elev, PyInt(T.high_zero)),
                 PyInt(T.high_full - T.high_zero)), LAMBDA q :
         Clip01(q, "float64"))

\* The last index of the maximum
ArgMaxLast3(row) ==
  IF NumCmp(row[3], row[2]) >= 0 /\ NumCmp(row[3], row[1]) >= 0 THEN 2
  ELSE IF NumCmp(row[2], row[1]) >= 0 THEN 1
  ELSE 0

\* np.argmax(row) for a row of three numbers: the first index (from 0) of
\* the maximum
ArgMax3(row) ==
  IF NumCmp(row[1], row[2]) >= 0 /\ NumCmp(row[1], row[3]) >= 0 THEN 0
  ELSE IF NumCmp(row[2], row[3]) >= 0 THEN 1
  ELSE 2

\* labels = np.array(["Plain", "Upland", "Mountainous"])
ClassLabels == <<"Plain", "Upland", "Mountainous">>

\* Elevations are the multiples of 1/ElevDen from ElevMin to ElevMax (the
\* plotting range of tutorial8.py); an int64 array holds the whole ones.
ElevDen == 5

ElevMin == 370

ElevMax == 420

\* An array holds at most MaxElevs elevations that follow each other
MaxElevs == 3

\* The element of an array of dtype for the elevation k / ElevDen (float64)
\* or k (int64)
ElevValue(dtype, k) ==
  IF dtype = "int64" THEN PyInt(k) ELSE FDiv(PyInt(k), PyInt(ElevDen))

\* low, medium and high of one elevation
MembershipRow(T, dtype, k) ==
  Bind(ElevValue(dtype, k), LAMBDA v :
    Bind(low_membership(T, v), LAMBDA lo :
    Bind(medium_membership(T, v, dtype), LAMBDA me :
    Bind(high_membership(T, v), LAMBDA hi :
      [elev |-> v, low |-> lo, medium |-> me, high |-> hi]))))

\* The row of elevation k in the script of tutorial7.py (script = 7) or
\* in tutorial8.py (script = 8)
RowOf(script, dtype, k) ==
  MembershipRow(IF script = 7 THEN Thresholds7 ELSE Thresholds8, dtype, k)

\* The membership values of the elevations num of an array of dtype, and
\* the classes of maximum membership:
\*   memberships = np.vstack([low_vals, med_vals, high_vals]).T
\*   assigned_classes = [labels[np.argmax(row)] for row in memberships]
FuzzyValues(script, dtype, num) ==
  Bind([i \in 1..Len(num) |-> RowOf(script, dtype, num[i])], LAMBDA rows :
      [set |-> TRUE,
       elevations |-> [i \in 1..Len(num) |-> rows[i].elev],
       low_vals |-> [i \in 1..Len(num) |-> rows[i].low],
       med_vals |-> [i \in 1..Len(num) |-> rows[i].medium],
       high_vals |-> [i \in 1..Len(num) |-> rows[i].high],
       assigned_classes |->
         [i \in 1..Len(num) |->
            ClassLabels[ArgMax3(<<ToFloat(rows[i].low),
                                  ToFloat(rows[i].medium),
                                  ToFloat(rows[i].high)>>) + 1]]])

\* The object the caller passes as df
ArgumentRef == 1

\* classify_elevation(df, low_mf, med_mf, high_mf) of tutorial8.py: the
\* locals at the return, the object df after df['fuzzy_class'] = ..., and
\* what return df hands back: the object of the parameter
classify_elevation(df, dtype, num) ==
  Bind(FuzzyValues(8, dtype, num), LAMBDA l :
  Bind(SetColumn(df, "fuzzy_class", l.assigned_classes), LAMBDA after :
    [locals |-> l, df |-> after,
     returned |-> [ref |-> ArgumentRef, frame |-> after]]))

\* The classification script of tutorial8.py: the columns low, medium and
\* high, then assign_class on every row
classification_script(df, dtype, num) ==
  Bind(FuzzyValues(8, dtype, num), LAMBDA l :
    [locals |-> l,
     df |-> SetColumn(SetColumn(SetColumn(SetColumn(df,
              "low", l.low_vals), "medium", l.med_vals),
              "high", l.high_vals), "fuzzy_class", l.assigned_classes)])

(***************************************************************************)
(* The Bayesian script of tutorial7.py.                                    *)
(***************************************************************************)
\* The script is run on at most MaxObs elevations
MaxObs == 3

\* threshold = 400
Threshold == 400

\* a_prior, b_prior = 1, 1
APrior == 1

BPrior == 1

NaN == [t |-> "nan"]

\* event_data = elev > threshold
EventData(elev) ==
  [i \in 1..Len(elev) |-> NumCmp(elev[i], PyInt(Threshold)) > 0]

\* Series.mean() of booleans: NaN for an empty Series
SeriesMean(col) ==
  IF Len(col) = 0 THEN NaN ELSE FDiv(PyInt(CountTrue(col)), PyInt(Len(col)))

\* The script that takes every observation for a failure
bayesian_script_all_failures(elev) ==
  LET event_data == EventData(elev)
      successes  == CountTrue(event_data)
      failures   == Len(event_data)
      a_post     == APrior + successes
      b_post     == BPrior + failures
  IN  [set |-> TRUE,
       event_data |-> event_data,
       observed_prob |-> SeriesMean(event_data),
       successes |-> successes,
       failures |-> failures,
       a_post |-> a_post,
       b_post |-> b_post,
       posterior_mean |-> FDiv(PyInt(a_post), PyInt(a_post + b_post))]

\* The locals of the script once the posterior mean is computed
bayesian_script(elev) ==
  LET event_data == EventData(elev)
      successes  == CountTrue(event_data)
      failures   == Len(event_data) - successes
      a_post     == APrior + successes
      b_post     == BPrior + failures
  IN  [set |-> TRUE,
       event_data |-> event_data,
       observed_prob |-> SeriesMean(event_data),
       successes |-> successes,
       failures |-> failures,
       a_post |-> a_post,
       b_post |-> b_post,
       posterior_mean |-> FDiv(PyInt(a_post), PyInt(a_post + b_post))]

(***************************************************************************)
(* generate_dataset of app.py (basic.py has the same function body).       *)
(***************************************************************************)
\* generate_dataset is called with num_samples in 0..MaxSamples, with every
\* choice of rows and every sequence of outlier draws, and with the default
\* of the page.
MaxSamples == 2

\* num_samples and variation of the example: 100 rows, 5 outliers
ExampleSamples == 100

ExampleVariation == 5

\* depth_start = 100
DepthStart == 100

RECURSIVE BToInt(_)
\* the integer a few limbs stand for
BToInt(x) == IF x = <<>> THEN 0 ELSE x[1] + Base * BToInt(Tail(x))

\* round(val) of a float: the nearest integer, half-way cases to the even one
PyRound(f) ==
  IF f.e >= 0 THEN (IF f.s = 1 THEN -1 ELSE 1) * BToInt(BShl(f.m, f.e))
  ELSE Bind(BShr(f.m, -f.e), LAMBDA q :
         (IF f.s = 1 THEN -1 ELSE 1)
         * (BToInt(q) + IF RoundUp(f.m, -f.e, q, FALSE) THEN 1 ELSE 0))

\* f * c for a float and a positive int c of one limb
FMulSmall(f, c) == RoundNE(f.s, BMulSmall(f.m, c), f.e, FALSE)

\* round(val, 1) of a numpy float: rint(val * 10) / 10
NpRound1(f) == FDiv(PyInt(PyRound(FMulSmall(f, 10))), PyInt(10))

\* val itself, negative or not
ClipLowNone(f) == f

\* np.clip(val, a_min=0, a_max=None)
ClipLow(f) == IF NumCmp(f, PyInt(0)) < 0 THEN FloatZero ELSE f

\* np.clip(val, a_min=0, a_max=100)
ClipPercent(f) ==
  IF NumCmp(f, PyInt(0)) < 0 THEN FloatZero
  ELSE IF NumCmp(f, PyInt(100)) > 0 THEN ToFloat(PyInt(100))
  ELSE f

\* What np.random.normal can draw for Foraminifera (in tenths): a draw below
\* 0 and a half-way case of round
ForamDraws == {-37, 255}

\* What np.random.normal can draw for Calcite (in hundredths): a draw within
\* one standard deviation of the mean and a draw far in the lower tail, both
\* half-way cases of round
CalciteDraws == {4225, 1525}

\* The arrays np.random.normal(size=size) can return, over the draws d / den:
\* the arrays of one value, and those whose first element alone differs
NormalOutcomes(size, draws, den) ==
  {[i \in 1..size |-> FDiv(PyInt(IF i = 1 THEN a ELSE b), PyInt(den))] :
     a \in draws, b \in draws}

ChoiceError ==
  "ValueError: Cannot take a larger sample than population when 'replace=False'"

\* np.random.choice(n, size=k) with replacement
choice_with_replacement(n, k) ==
  {[err |-> NoError, value |-> c] : c \in [1..k -> 0..(n - 1)]}

\* What np.random.choice(n, size=k, replace=False) can do: raise, or return
\* k different indices (every such sequence up to MaxSamples indices, the
\* first k and the last k indices beyond)
choice(n, k) ==
  IF k > n THEN {[err |-> ChoiceError, value |-> <<>>]}
  ELSE IF n <= MaxSamples
  THEN {[err |-> NoError, value |-> c] :
          c \in {x \in [1..k -> 0..(n - 1)] :
                   \A i, j \in 1..k : i # j => x[i] # x[j]}}
  ELSE {[err |-> NoError, value |-> [i \in 1..k |-> i - 1]],
        [err |-> NoError, value |-> [i \in 1..k |-> n - i]]}

\* What one outlier draws: np.random.rand() < 0.5, and the np.random.randint
\* of its branch (lowest and highest value)
OutlierDraws ==
  {[high |-> TRUE, amount |-> a] : a \in {50, 199}}
  \cup {[high |-> FALSE, amount |-> a] : a \in {20, 44}}

\* The draws of k outliers: every sequence up to MaxSamples outliers, the
\* same draw for all of them beyond
DrawOutcomes(k) ==
  IF k <= MaxSamples THEN [1..k -> OutlierDraws]
  ELSE {[i \in 1..k |-> d] : d \in OutlierDraws}

\* x itself, whatever its sign
Max0Identity(x) == x

\* max(0, x) of Python: x when x > 0, the int 0 otherwise
Max0(x) == IF NumCmp(x, PyInt(0)) > 0 THEN x ELSE PyInt(0)

RECURSIVE ApplyOutliers(_, _, _, _, _)
\* The loop over outlier_indices from its element j on
ApplyOutliers(foram_counts, calcite_perc, outlier_indices, draws, j) ==
  IF j > Len(outlier_indices)
  THEN [foram_counts |-> foram_counts, calcite_perc |-> calcite_perc]
  ELSE LET idx == outlier_indices[j] + 1
       IN  IF draws[j].high
           THEN ApplyOutliers(
                  [foram_counts EXCEPT ![idx] = @ + draws[j].amount],
                  calcite_perc, outlier_indices, draws, j + 1)
           ELSE Bind(Max0(FSub(calcite_perc[idx], PyInt(draws[j].amount))),
                     LAMBDA c :
                  ApplyOutliers(foram_counts,
                                [calcite_perc EXCEPT ![idx] = c],
                                outlier_indices, draws, j + 1))

\* depth_values counted from depth_start + 1
depth_values_from_next(num_samples) == [i \in 1..num_samples |-> DepthStart + i]

\* depth_values = np.arange(depth_start, depth_start + num_samples)
depth_values(num_samples) == [i \in 1..num_samples |-> DepthStart + i - 1]

\* The rounded base values of the two columns
BaseValues(foram_raw, calcite_raw) ==
  [foram_counts |->
     [i \in 1..Len(foram_raw) |-> PyRound(ClipLow(foram_raw[i]))],
   calcite_perc |->
     [i \in 1..Len(calcite_raw) |-> NpRound1(ClipPercent(calcite_raw[i]))]]

\* generate_dataset, given what the random source produces; the
\* Calcite_Percentage column of the DataFrame is of dtype float64
generate_dataset(num_samples, foram_raw, calcite_raw, outlier_indices, draws) ==
  Bind(BaseValues(foram_raw, calcite_raw), LAMBDA base :
  Bind(ApplyOutliers(base.foram_counts, base.calcite_perc, outlier_indices,
                     draws, 1), LAMBDA out :
    [locals |-> [set |-> TRUE, base_foram |-> base.foram_counts,
                 base_calcite |-> base.calcite_perc,
                 outlier_indices |-> outlier_indices],
     df |-> DataFrame(
              <<"Sample_ID", "Depth_m", "Foraminifera_Count",
                "Calcite_Percentage">>,
              <<[i \in 1..num_samples |-> "S" \o Str(i)],
                depth_values(num_samples),
                out.foram_counts,
                [i \in 1..num_samples |-> ToFloat(out.calcite_perc[i])]>>)]))

(***************************************************************************)
(* The probabilities of main of axiom.py.                                  *)
(***************************************************************************)
\* Counts whose rounded probabilities add to more than 1: 1, 1 and 4 of 6
RoundingHoles == 6

RoundingHigh == 1

RoundingMedium == 1

RoundingLow == 4

\* round(x, 3) of a Python float: the float nearest to k / 1000, where k is
\* the integer nearest to the exact x * 1000 (half-way cases to the even k)
Round3(x) ==
  Bind(PyRound([s |-> x.s, m |-> BMulSmall(x.m, 1000), e |-> x.e]), LAMBDA k :
    FDiv(PyInt(k), PyInt(1000)))

\* round(count / assigned_total, 3)
Probability(count, assigned_total) ==
  Round3(FDiv(PyInt(count), PyInt(assigned_total)))

\* Part 4 of main: the counts of the assigned holes, their probabilities,
\* and the total_prob display_probability_axioms_ui adds up
AxiomProbabilityValues(d) ==
  LET col == Column(d, "Grade Category")
      n(label) == Cardinality({i \in 1..Len(col) : col[i] = label})
      assigned_total == Len(col) - n("Unassigned")
  IN  IF assigned_total > 0
      THEN Bind(Probability(n("High"), assigned_total), LAMBDA p_high :
           Bind(Probability(n("Medium"), assigned_total), LAMBDA p_medium :
           Bind(Probability(n("Low"), assigned_total), LAMBDA p_low :
             [set |-> TRUE, assigned_total |-> assigned_total,
              high_count |-> n("High"), medium_count |-> n("Medium"),
              low_count |-> n("Low"), p_high |-> p_high,
              p_medium |-> p_medium, p_low |-> p_low,
              total_prob |-> FAdd(FAdd(p_high, p_medium), p_low)])))
      ELSE [set |-> TRUE, assigned_total |-> 0, high_count |-> 0,
            medium_count |-> 0, low_count |-> 0, p_high |-> PyInt(0),
            p_medium |-> PyInt(0), p_low |-> PyInt(0),
            total_prob |-> PyInt(0)]

(***************************************************************************)
(* The mode of the magnitudes in the script of tutorial2.py.  A magnitude  *)
(* is written in tenths; statistics.mode only compares them.               *)
(***************************************************************************)
\* The column holds up to MaxMagnitudes magnitudes
MaxMagnitudes == 3

MagnitudeValues == {45, 50, 52}

\* How often v is in data
CountOf(data, v) == Cardinality({i \in 1..Len(data) : data[i] = v})

\* The values of data that no other value is more frequent than
MostFrequent(data) ==
  {data[i] : i \in {j \in 1..Len(data) :
     \A k \in 1..Len(data) : CountOf(data, data[k]) <= CountOf(data, data[j])}}

\* The first value of data among the most frequent ones
FirstMostFrequent(data) ==
  data[CHOOSE i \in 1..Len(data) :
         /\ data[i] \in MostFrequent(data)
         /\ \A j \in 1..(i - 1) : data[j] \notin MostFrequent(data)]

StatisticsError == "StatisticsError"

\* statistics.mode(data): before Python 3.8 it raises unless one value alone
\* is the most frequent; from Python 3.8 on it raises on empty data only and
\* returns the first of the most frequent values
StatisticsMode(data, python) ==
  IF data = <<>> THEN [err |-> StatisticsError, value |-> 0]
  ELSE IF python = "3.7" /\ Cardinality(MostFrequent(data)) > 1
  THEN [err |-> StatisticsError, value |-> 0]
  ELSE [err |-> NoError, value |-> FirstMostFrequent(data)]

NoModeText == "Multiple modes or no valid data"

\* try: mode_mag = mode(magnitudes) / except: mode_mag = "Multiple modes..."
ModeMag(magnitudes, python) ==
  LET r == StatisticsMode(magnitudes, python)
  IN  IF r.err # NoError THEN [t |-> "str", text |-> NoModeText]
      ELSE [t |-> "number", tenths |-> r.value]

(***************************************************************************)
(* The elevation_conditional script of tutorial6.py.                       *)
(***************************************************************************)
\* The file holds up to MaxRecords records
MaxRecords == 3

\* ELEV_THRESHOLD = 400
ElevThreshold == 400

\* LAT_THRESHOLD = 48.1125
LatThreshold == FDiv(PyInt(481125), PyInt(10000))

RECURSIVE BMul(_, _)
\* x * y
BMul(x, y) ==
  IF x = <<>> \/ y = <<>> THEN <<>>
  ELSE Bind(BMul(x, Tail(y)), LAMBDA rest :
         BAdd(BMulSmall(x, y[1]), IF rest = <<>> THEN <<>> ELSE <<0>> \o rest))

\* x * y in float arithmetic; NaN if one of them is NaN
FMul(x, y) ==
  IF x.t = "nan" \/ y.t = "nan" THEN NaN
  ELSE Bind(ToFloat(x), LAMBDA fx : Bind(ToFloat(y), LAMBDA fy :
         RoundNE((fx.s + fy.s) % 2, BMul(fx.m, fy.m), fx.e + fy.e, FALSE)))

\* x / y for y # 0; NaN if x is NaN
FDivNaN(x, y) == IF x.t = "nan" THEN NaN ELSE FDiv(x, y)

\* x > 0: False for NaN
Positive(x) == x.t # "nan" /\ NumCmp(x, PyInt(0)) > 0

\* Steps 2 and 3 of main: the events and the probabilities
conditional_script(d) ==
  LET A == [i \in 1..NumRows(d) |->
              NumCmp(Column(d, "elevation")[i], PyInt(ElevThreshold)) > 0]
      B == [i \in 1..NumRows(d) |->
              NumCmp(Column(d, "latitude")[i], LatThreshold) > 0]
      P_A == SeriesMean(A)
      P_B == SeriesMean(B)
      P_A_and_B == SeriesMean([i \in 1..NumRows(d) |-> A[i] /\ B[i]])
      P_A_given_B == IF Positive(P_B) THEN FDiv(P_A_and_B, P_B) ELSE NaN
  IN  [set |-> TRUE, total |-> NumRows(d), A |-> A, B |-> B,
       P_A |-> P_A, P_B |-> P_B, P_A_and_B |-> P_A_and_B,
       P_A_given_B |-> P_A_given_B,
       P_B_given_A |-> IF Positive(P_A)
                       THEN FDivNaN(FMul(P_A_given_B, P_B), P_A)
                       ELSE NaN]

(***************************************************************************)
(* Streamlit, as the pages use it.  Every interaction with a widget runs   *)
(* the script again from the top; st.button returns True only in the run   *)
(* its own press caused; a function under st.cache_data runs its body once *)
(* for given arguments and afterwards hands back the stored return value   *)
(* (None included) and replays the elements the body had shown.            *)
(***************************************************************************)
\* A session stops taking interactions after MaxRuns HTTP requests or
\* generated datasets
MaxRuns == 2

\* st.button(label) in the run that the interaction trigger caused
Button(label, trigger) == trigger = label

None == [t |-> "None"]

\* A cached function is called with key; its body, if it runs, makes one
\* HTTP request and would return body.value after showing body.error
CachedCall(st, fn, key, body) ==
  IF \E e \in st.cache : e.fn = fn /\ e.key = key
  THEN LET e == CHOOSE x \in st.cache : x.fn = fn /\ x.key = key
       IN  [st |-> [st EXCEPT !.calls = @ \cup {<<fn, key>>}],
            value |-> e.value, error |-> e.error]
  ELSE [st |-> [st EXCEPT !.cache = @ \cup {[fn |-> fn, key |-> key,
                                             value |-> body.value,
                                             error |-> body.error]},
                          !.requests = @ + 1,
                          !.calls = @ \cup {<<fn, key>>},
                          !.failed = IF body.error = NoError THEN @
                                     ELSE @ \cup {<<fn, key>>}],
        value |-> body.value, error |-> body.error]

(***************************************************************************)
(* dataset.py: the Data Explorer page.                                     *)
(***************************************************************************)
FetchError == "Error fetching earthquake data. Please try again."

SearchError == "Error searching NOAA database. Try another keyword."

DetailsError == "Error fetching study details."

NoResponseError ==
  "No valid response from NOAA search. Check your keyword or try again."

\* The default of "Minimum Magnitude", in tenths, and one step above it
MagnitudeInputs == {50, 51}

KeywordInputs == {"ice core CO2", "vostok"}

\* An HTTP answer: a status, and the parsed JSON of a 200
Response(status, json) == [status |-> status, json |-> json]

Quake == [time |-> "2024-01-15 10:00:00", magnitude |-> 55, place |-> "P", longitude |-> 10, latitude |-> 20, depth |-> 30]

EarthquakeResponses ==
  {Response(500, None),
   Response(200, [t |-> "dict", features |-> <<>>]),
   Response(200, [t |-> "dict", features |-> <<Quake>>])}

Study(id) == [studyId |-> id, siteName |-> "Site", studyName |-> "Study"]

SearchResponses ==
  {Response(500, None),
   Response(200, [t |-> "dict", has_study |-> FALSE, study |-> <<>>]),
   Response(200, [t |-> "dict", has_study |-> TRUE, study |-> <<>>]),
   Response(200, [t |-> "dict", has_study |-> TRUE,
                  study |-> <<Study(7), Study(3)>>])}

StudyResponses ==
  {Response(500, None),
   Response(200, [t |-> "dict", has_study |-> TRUE, data_files |-> <<>>]),
   Response(200, [t |-> "dict", has_study |-> TRUE,
                  data_files |-> <<"https://example/file.txt">>])}

FileResponses == {Response(500, None), Response(200, [t |-> "text"])}

\* The body of fetch_earthquake_data, given the answer to its request
fetch_earthquake_data(resp) ==
  IF resp.status # 200 THEN [value |-> None, error |-> FetchError]
  ELSE [value |-> resp.json, error |-> NoError]

\* parse_earthquake_data(data): one row for each feature
parse_earthquake_data(data) ==
  LET f == data.features
  IN  DataFrame(<<"time", "magnitude", "place", "longitude", "latitude", "depth">>,
                <<[i \in 1..Len(f) |-> f[i].time],
                  [i \in 1..Len(f) |-> f[i].magnitude],
                  [i \in 1..Len(f) |-> f[i].place],
                  [i \in 1..Len(f) |-> f[i].longitude],
                  [i \in 1..Len(f) |-> f[i].latitude],
                  [i \in 1..Len(f) |-> f[i].depth]>>)

\* The body of search_ice_core_studies
search_ice_core_studies(resp) ==
  IF resp.status = 200 THEN [value |-> resp.json, error |-> NoError]
  ELSE [value |-> None, error |-> SearchError]

\* The body of fetch_study_details
fetch_study_details(resp) ==
  IF resp.status = 200 THEN [value |-> resp.json, error |-> NoError]
  ELSE [value |-> None, error |-> DetailsError]

\* The label of a study in the selectbox
StudyLabel(x) ==
  "ID " \o Str(x.studyId) \o ": " \o x.siteName \o " - " \o x.studyName

\* sorted(study_options, key=lambda x: x[1]): the studies by rising studyId
\* (the studies of one answer have different ids)
SortedStudies(studies) ==
  CHOOSE q \in [1..Len(studies) -> {studies[i] : i \in 1..Len(studies)}] :
    \A i, j \in 1..Len(studies) : i < j => q[i].studyId < q[j].studyId

\* What a run has put on the page so far
Screen(messages, widgets, options, dataframe) ==
  [error |-> NoError, messages |-> messages, widgets |-> widgets,
   options |-> options, dataframe |-> dataframe]

Show(sc, message) == [sc EXCEPT !.messages = @ \cup {message}]

ShowError(sc, message) ==
  [sc EXCEPT !.messages = @ \cup {message}, !.error = message]

\* A message only if there is one
Replay(sc, error) == IF error = NoError THEN sc ELSE ShowError(sc, error)

AddWidget(sc, label) == [sc EXCEPT !.widgets = @ \cup {label}]

\* Tab 1 of main: run is the Streamlit state and the screen so far, w the
\* values of the widgets, resp the answer a request would get
EarthquakeTab(run, w, trigger, resp) ==
  LET sc1 == AddWidget(AddWidget(AddWidget(AddWidget(run.sc,
               "Start Date"), "End Date"), "Minimum Magnitude"),
               "Fetch Earthquake Data")
  IN  IF Button("Fetch Earthquake Data", trigger)
      THEN LET c == CachedCall(run.st, "fetch_earthquake_data",
                               <<"2024-01-01", "2024-02-01", w.min_magnitude>>,
                               fetch_earthquake_data(resp))
               sc2 == Replay(sc1, c.error)
           IN  IF c.value.t # "None"
               THEN LET df_eq == parse_earthquake_data(c.value)
                    IN  IF NumRows(df_eq) = 0
                        THEN [st |-> c.st,
                              sc |-> Show(sc2, "No earthquake data found for these parameters.")]
                        ELSE [st |-> c.st,
                              sc |-> [AddWidget(Show(sc2, "Fetched earthquake events."),
                                                "Download Earthquakes CSV")
                                        EXCEPT !.dataframe = df_eq]]
               ELSE [st |-> c.st, sc |-> sc2]
      ELSE [st |-> run.st, sc |-> sc1]

\* The body of if st.button("Retrieve Study Data")
RetrieveStudy(run, selected_study_id, resp_study, resp_file) ==
  LET c == CachedCall(run.st, "fetch_study_details", selected_study_id,
                      fetch_study_details(resp_study))
      sc1 == Replay(run.sc, c.error)
  IN  IF c.value.t # "None" /\ c.value.has_study
      THEN IF c.value.data_files = <<>>
           THEN [st |-> c.st,
                 sc |-> Show(Show(sc1, "Study details retrieved."),
                             "No data files found for this study.")]
           ELSE LET st2 == [c.st EXCEPT !.requests = @ + 1]
                    sc2 == Show(Show(sc1, "Study details retrieved."),
                                "Selected File")
                IN  IF resp_file.status = 200
                    THEN [st |-> st2,
                          sc |-> AddWidget(AddWidget(sc2, "File Preview"),
                                           "Download Study Data")]
                    ELSE [st |-> st2,
                          sc |-> ShowError(sc2, "Could not retrieve the data file.")]
      ELSE [st |-> c.st,
            sc |-> Show(sc1, "Study details are empty or invalid.")]

\* The selectbox, the lookup of the chosen id and what follows, for the
\* studies of a search
ChooseStudy(run, w, trigger, studies, resp_study, resp_file) ==
  LET sorted == SortedStudies(studies)
      options == [i \in 1..Len(sorted) |-> StudyLabel(sorted[i])]
      selected_label ==
        IF \E i \in 1..Len(options) : options[i] = w.selected_label
        THEN w.selected_label ELSE options[1]
      selected_study_id ==
        sorted[CHOOSE i \in 1..Len(options) : options[i] = selected_label].studyId
      sc1 == [AddWidget(Show(run.sc, "Found studies."),
                        "Select a Study to Retrieve:")
                EXCEPT !.options = options]
  IN  IF selected_study_id # 0
      THEN IF Button("Retrieve Study Data", trigger)
           THEN RetrieveStudy([st |-> run.st,
                               sc |-> AddWidget(sc1, "Retrieve Study Data")],
                              selected_study_id, resp_study, resp_file)
                  @@ [selected_label |-> selected_label]
           ELSE [st |-> run.st, sc |-> AddWidget(sc1, "Retrieve Study Data"),
                 selected_label |-> selected_label]
      ELSE [st |-> run.st, sc |-> sc1, selected_label |-> selected_label]

\* Tab 2 of main
IceCoreTab(run, w, trigger, resp_search, resp_study, resp_file) ==
  LET sc1 == AddWidget(AddWidget(run.sc, "Search Keyword:"), "Search Studies")
  IN  IF Button("Search Studies", trigger)
      THEN LET c == CachedCall(run.st, "search_ice_core_studies", w.keyword,
                               search_ice_core_studies(resp_search))
               sc2 == Replay(sc1, c.error)
           IN  IF c.value.t # "None" /\ c.value.has_study
               THEN IF c.value.study = <<>>
                    THEN [st |-> c.st,
                          sc |-> Show(sc2, "No studies found for this keyword."),
                          selected_label |-> ""]
                    ELSE ChooseStudy([st |-> c.st, sc |-> sc2], w, trigger,
                                     c.value.study, resp_study, resp_file)
               ELSE [st |-> c.st, sc |-> ShowError(sc2, NoResponseError),
                     selected_label |-> ""]
      ELSE [st |-> run.st, sc |-> sc1, selected_label |-> ""]

\* One run of main of dataset.py: w holds the values of the widgets and the
\* interaction that caused the run; a selectbox that is not shown in the
\* run forgets its value
dataset_main(w, st, resp_quake, resp_search, resp_study, resp_file) ==
  LET tab1 == EarthquakeTab([st |-> st, sc |-> Screen({}, {}, <<>>, NoDataFrame)],
                            w, w.trigger, resp_quake)
  IN  IceCoreTab(tab1, w, w.trigger, resp_search, resp_study, resp_file)

(***************************************************************************)
(* app.py: main, the Basic Statistics page (basic_statistics_page of       *)
(* basic.py has the same sliders, button and branches).                    *)
(***************************************************************************)
\* "Number of Samples": the lowest value and the default
SampleInputs == {20, 100}

\* "Variation (Outliers)": the lowest value and the default
VariationInputs == {0, 2}

GenerateLabel == "Generate & Analyze Dataset"

GenerateWarning == "Use the sidebar to generate and analyze your dataset."

\* A button that returns True in every run
ButtonHeld(label, trigger) == TRUE

\* generate_button = st.sidebar.button(...) in the run that trigger caused
GenerateButton(label, trigger) == Button(label, trigger)

\* Two of the outcomes of the random source for a page run: high counts
\* with the first rows raised, and clipped counts with the last rows
\* lowered
PageOutcomes(n, v) ==
  {[foram_raw |-> [i \in 1..n |-> FDiv(PyInt(255), PyInt(10))],
    calcite_raw |-> [i \in 1..n |-> FDiv(PyInt(4225), PyInt(100))],
    outlier_indices |-> [i \in 1..v |-> i - 1],
    draws |-> [i \in 1..v |-> [high |-> TRUE, amount |-> 50]]],
   [foram_raw |-> [i \in 1..n |-> FDiv(PyInt(-37), PyInt(10))],
    calcite_raw |-> [i \in 1..n |-> FDiv(PyInt(1525), PyInt(100))],
    outlier_indices |-> [i \in 1..v |-> n - i],
    draws |-> [i \in 1..v |-> [high |-> FALSE, amount |-> 44]]]}

\* df.head(n)
DfHead(d, n) ==
  [d EXCEPT !.data = [k \in 1..Len(d.data) |->
                        SubSeq(d.data[k], 1, Min(n, Len(d.data[k])))]]

\* One run of main of app.py: w holds the values of the sliders and the
\* interaction that caused the run, o what the random source produces.  df
\* is the local variable of the run; the charts and statistics of the
\* parts add nothing to the state and are left out.
app_main(w, st, o) ==
  LET sc == AddWidget(AddWidget(AddWidget(AddWidget(
              Screen({}, {}, <<>>, NoDataFrame), "Number of Samples"),
              "Std Dev for Foraminifera"), "Variation (Outliers)"),
              GenerateLabel)
  IN  IF GenerateButton(GenerateLabel, w.trigger)
      THEN Bind(generate_dataset(w.num_samples, o.foram_raw, o.calcite_raw,
                                 o.outlier_indices, o.draws).df, LAMBDA d :
             [st |-> [st EXCEPT !.generated = @ + 1],
              df |-> d,
              sc |-> [AddWidget(Show(sc, "Part 1: Data Overview"),
                                "Download CSV")
                        EXCEPT !.dataframe = DfHead(d, 10)]])
      ELSE [st |-> st, df |-> NoDataFrame, sc |-> Show(sc, GenerateWarning)]

(***************************************************************************)
(* The state: one call of a page's function, or one render of a page.      *)
(***************************************************************************)
VARIABLES
  page,       \* the page or script that runs: "prob", "axiom", ...
  entry,      \* "main": the page is rendered; "call": the function is called
  pc,         \* where the run is
  args,       \* the arguments (the widget values) of the run
  flags,      \* the flag lists of create_dataset
  df,         \* the DataFrame the run holds
  err,        \* the exception that ended the run, or NoError
  prob_dict,  \* what calculate_probabilities returned
  ui,         \* what the page has shown: an error message, a table
  locals,     \* the local variables of the function or script that runs
  streamlit   \* what Streamlit keeps between the runs of a script: the
              \* st.cache_data entries, and the log of what the runs did

vars == <<page, entry, pc, args, flags, df, err, prob_dict, ui, locals, streamlit>>

NoLocals == [set |-> FALSE]

\* No cached call, no HTTP request made, no cached function called, no call
\* that failed, no dataset generated
NoStreamlit == [cache |-> {}, requests |-> 0, calls |-> {}, failed |-> {}, generated |-> 0]

NoUI == [error |-> NoError, dataframe |-> NoDataFrame]

NoArgs == [fn |-> "none"]

ProbArgs ==
  {[fn |-> "create_dataset", num_layers |-> n, count_A |-> a, count_B |-> b,
    overlap_AB |-> o, count_sandstone |-> s] :
     n \in 0..MaxLayers, a \in 0..(MaxLayers + 1), b \in 0..(MaxLayers + 1),
     o \in 0..(MaxLayers + 1), s \in 0..(MaxLayers + 1)}
  \cup
  {[fn |-> "create_dataset", num_layers |-> ScenarioLayers,
    count_A |-> ScenarioA, count_B |-> ScenarioB,
    overlap_AB |-> ScenarioOverlap, count_sandstone |-> s] :
     s \in 0..ScenarioLayers}

\* Tables a caller can hand to calculate_probabilities
CallerTables ==
  UNION {{DataFrame(<<"FossilA", "FossilB">>, <<a, b>>) :
            a \in [1..n -> {"Yes", "No"}], b \in [1..n -> {"Yes", "No"}]} :
         n \in 0..MaxRows}

DrillArgs(t, h, m, l) ==
  [fn |-> "generate_random_drillholes", total_holes |-> t, n_high |-> h,
   n_medium |-> m, n_low |-> l]

\* The arguments of a direct call
DrillCallArgs ==
  {DrillArgs(t, h, m, l) :
     t \in 0..MaxHoles, h \in 0..MaxHoles, m \in 0..MaxHoles, l \in 0..MaxHoles}
  \cup {DrillArgs(12, 6, 2, 1)}

\* The widget values of the page: total_holes >= 1, each count <= total_holes
DrillMainArgs ==
  {DrillArgs(t, h, m, l) :
     t \in 1..MaxHoles, h \in 0..MaxHoles, m \in 0..MaxHoles, l \in 0..MaxHoles}
  \cup {DrillArgs(5, 2, 2, 1)}
  \cup {DrillArgs(RoundingHoles, RoundingHigh, RoundingMedium, RoundingLow)}

\* The elevation arrays: up to MaxElevs elevations that follow each other
Windows(lo, hi) ==
  {[i \in 1..n |-> k0 + i - 1] :
     k0 \in lo..hi, n \in 1..Min(MaxElevs, hi - lo + 1)}

ElevArgs ==
  {[fn |-> "memberships", dtype |-> "float64", num |-> w] :
     w \in {x \in Windows(ElevMin * ElevDen, ElevMax * ElevDen) :
              x[Len(x)] <= ElevMax * ElevDen}}
  \cup
  {[fn |-> "memberships", dtype |-> "int64", num |-> w] :
     w \in {x \in Windows(ElevMin, ElevMax) : x[Len(x)] <= ElevMax}}

\* The DataFrame with the elevations of the arguments a
ElevationFrame(a) ==
  DataFrame(<<"elevation">>,
            <<[i \in 1..Len(a.num) |-> ElevValue(a.dtype, a.num[i])]>>)

\* The elevation column the Bayesian script loads: elevations below, at
\* and above the threshold
BayesArgs ==
  {[fn |-> "bayesian_script", elev |-> e] :
     e \in UNION {[1..n -> {ToFloat(PyInt(Threshold - 1)),
                            ToFloat(PyInt(Threshold)),
                            ToFloat(PyInt(Threshold + 1))}] : n \in 0..MaxObs}}

\* The arguments of generate_dataset: foram_std only shapes the
\* distribution of the draws
DatasetArgs ==
  {[fn |-> "generate_dataset", num_samples |-> n, variation |-> v] :
     n \in 0..MaxSamples, v \in 0..(MaxSamples + 1)}
  \cup {[fn |-> "generate_dataset", num_samples |-> ExampleSamples,
         variation |-> ExampleVariation]}

\* The magnitude columns the script of tutorial2.py reads, and the Python
\* that runs it
ModeArgs ==
  {[fn |-> "mode", magnitudes |-> c, python |-> v] :
     c \in UNION {[1..n -> MagnitudeValues] : n \in 0..MaxMagnitudes},
     v \in {"3.7", "3.8"}}

\* The records of the elevation file: elevations below and above the
\* threshold, latitudes below, at and above the threshold
ConditionalArgs ==
  {[fn |-> "elevation_conditional", elevation |-> e, latitude |-> l] :
     e \in UNION {[1..n -> {PyInt(ElevThreshold - 1), PyInt(ElevThreshold + 1)}] :
                    n \in 0..MaxRecords},
     l \in UNION {[1..n -> {FDiv(PyInt(480), PyInt(10)), LatThreshold,
                            FDiv(PyInt(482), PyInt(10))}] : n \in 0..MaxRecords}}

\* The sliders of the Basic Statistics page before its first run
AppPageArgs == [fn |-> "main", trigger |-> "", num_samples |-> 100, variation |-> 2]

\* The widgets of the Data Explorer page before its first run
DatasetPageArgs ==
  [fn |-> "main", trigger |-> "", min_magnitude |-> 50,
   keyword |-> "ice core CO2", selected_label |-> ""]

\* The buttons of the Data Explorer page
DatasetButtons ==
  {"Fetch Earthquake Data", "Download Earthquakes CSV", "Search Studies",
   "Retrieve Study Data", "Download Study Data"}

Start(p, e, a, d, at) ==
  /\ page = p
  /\ entry = e
  /\ pc = at
  /\ args = a
  /\ flags = Unassigned
  /\ df = d
  /\ err = NoError
  /\ prob_dict = NoResult
  /\ ui = NoUI
  /\ locals = NoLocals
  /\ streamlit = NoStreamlit

Init ==
  \/ \E a \in ProbArgs : Start("prob", "call", a, NoDataFrame, "call")
  \/ \E d \in CallerTables : Start("prob", "call", NoArgs, d, "table")
  \/ \E a \in DrillCallArgs : Start("axiom", "call", a, NoDataFrame, "call")
  \/ \E a \in {x \in DrillMainArgs :
                 x.n_high <= x.total_holes /\ x.n_medium <= x.total_holes
                 /\ x.n_low <= x.total_holes} :
       Start("axiom", "main", a, NoDataFrame, "start")
  \/ \E a \in ElevArgs : Start("tutorial7", "script", a, NoDataFrame,
                                "elevations")
  \/ \E a \in DatasetArgs : Start("app", "call", a, NoDataFrame, "call")
  \/ \E a \in {x \in ConditionalArgs : Len(x.elevation) = Len(x.latitude)} :
       Start("tutorial6", "script", a,
             DataFrame(<<"longitude", "latitude", "elevation">>,
                       <<[i \in 1..Len(a.latitude) |-> PyInt(11)],
                         a.latitude, a.elevation>>), "loaded")
  \/ Start("dataset", "main", DatasetPageArgs, NoDataFrame, "rerun")
  \/ Start("app", "main", AppPageArgs, NoDataFrame, "rerun")
  \/ \E a \in ModeArgs :
       Start("tutorial2", "script", a,
             DataFrame(<<"magnitude">>, <<a.magnitudes>>), "loaded")
  \/ \E a \in BayesArgs :
       Start("tutorial7_bayesian", "script", a,
             DataFrame(<<"elevation">>, <<a.elev>>), "loaded")
  \/ \E a \in ElevArgs : \E e \in {"call", "script"} :
       Start("tutorial8", e, a, ElevationFrame(a), "elevations")

\* create_dataset(num_layers, count_A, count_B, overlap_AB, count_sandstone)
CreateDataset ==
  /\ page = "prob"
  /\ pc = "call"
  /\ LET e == Validate(args.num_layers, args.count_A, args.count_B,
                       args.overlap_AB, args.count_sandstone)
     IN  IF e # NoError
         THEN /\ err' = e
              /\ pc' = "raised"
              /\ UNCHANGED <<flags, df>>
         ELSE \E indices \in ShuffleOutcomes(args.num_layers) :
              \E all_indices \in ShuffleOutcomes(args.num_layers) :
                LET f == AssignFossils(args.num_layers, args.count_A,
                                       args.count_B, args.overlap_AB, indices)
                    s == AssignSandstone(args.num_layers,
                                         args.count_sandstone, all_indices)
                IN  /\ flags' = [assigned |-> TRUE, fossilA |-> f.fossilA,
                                 fossilB |-> f.fossilB, sandstone_flags |-> s]
                    /\ df' = BuildDataset(args.num_layers, f.fossilA,
                                          f.fossilB, s)
                    /\ pc' = "returned"
                    /\ UNCHANGED err
  /\ UNCHANGED <<streamlit, page, entry, args, prob_dict, ui, locals>>

\* prob_dict = calculate_probabilities(df)
CalculateProbabilities ==
  /\ page = "prob"
  /\ pc \in {"returned", "table"}
  /\ LET r == calculate_probabilities(df)
     IN  /\ df' = r.df
         /\ prob_dict' = [returned |-> TRUE] @@ r.result
  /\ pc' = "calculated"
  /\ UNCHANGED <<streamlit, page, entry, args, flags, err, ui, locals>>

\* main of axiom.py: the check of the widget values
AxiomGuard ==
  /\ page = "axiom"
  /\ pc = "start"
  /\ IF SumExceeds(args.total_holes, args.n_high, args.n_medium, args.n_low)
     THEN /\ ui' = [ui EXCEPT !.error = SumError]
          /\ pc' = "stopped"
     ELSE /\ pc' = "call"
          /\ UNCHANGED ui
  /\ UNCHANGED <<streamlit, page, entry, args, flags, df, err, prob_dict, locals>>

\* df = generate_random_drillholes(total_holes, n_high, n_medium, n_low)
GenerateRandomDrillholes ==
  /\ page = "axiom"
  /\ pc = "call"
  /\ LET n == Len(GradeLabels(args.total_holes, args.n_high, args.n_medium,
                              args.n_low))
     IN  \E p \in ShuffleOutcomes(n) :
         \E x_coords \in RandintOutcomes(args.total_holes) :
         \E y_coords \in RandintOutcomes(args.total_holes) :
           LET r == generate_random_drillholes(
                      args.total_holes, args.n_high, args.n_medium,
                      args.n_low, p, x_coords, y_coords)
           IN  /\ df' = r.df
               /\ err' = r.err
               /\ pc' = IF r.err = NoError THEN "returned" ELSE "raised"
  /\ UNCHANGED <<streamlit, page, entry, args, flags, prob_dict, ui, locals>>

\* main of axiom.py: st.dataframe(df)
AxiomShowDataset ==
  /\ page = "axiom"
  /\ entry = "main"
  /\ pc = "returned"
  /\ ui' = [ui EXCEPT !.dataframe = df]
  /\ pc' = "shown"
  /\ UNCHANGED <<streamlit, page, entry, args, flags, df, err, prob_dict, locals>>

\* Part 4 of main and display_probability_axioms_ui
AxiomProbabilities ==
  /\ page = "axiom"
  /\ entry = "main"
  /\ pc = "shown"
  /\ locals' = AxiomProbabilityValues(df)
  /\ pc' = "displayed"
  /\ UNCHANGED <<streamlit, page, entry, args, flags, df, err, prob_dict, ui>>

\* Step 2 of main of the script of tutorial2.py, up to the printing
ModeScript2 ==
  /\ page = "tutorial2"
  /\ pc = "loaded"
  /\ locals' = [set |-> TRUE,
                mode_mag |-> ModeMag(Column(df, "magnitude"), args.python)]
  /\ pc' = "printed"
  /\ UNCHANGED <<streamlit, page, entry, args, flags, df, err, prob_dict, ui>>

\* The elevation_conditional script of tutorial6.py, from the loaded file
\* to the printed probabilities
ConditionalScript6 ==
  /\ page = "tutorial6"
  /\ pc = "loaded"
  /\ locals' = conditional_script(df)
  /\ pc' = "printed"
  /\ UNCHANGED <<streamlit, page, entry, args, flags, df, err, prob_dict, ui>>

\* Streamlit runs main of dataset.py: on the first load, and after every
\* interaction
DatasetRun ==
  /\ page = "dataset"
  /\ pc = "rerun"
  /\ \E r \in {dataset_main(args, streamlit, resp_quake, resp_search,
                             resp_study, resp_file) :
                  resp_quake \in EarthquakeResponses,
                  resp_search \in SearchResponses,
                  resp_study \in StudyResponses,
                  resp_file \in FileResponses} :
       /\ streamlit' = r.st
       /\ ui' = r.sc
       /\ args' = [args EXCEPT !.selected_label = r.selected_label]
  /\ pc' = "idle"
  /\ UNCHANGED <<page, entry, flags, df, err, prob_dict, locals>>

\* The user presses a button that is on the Data Explorer page
DatasetPress ==
  /\ page = "dataset"
  /\ pc = "idle"
  /\ streamlit.requests < MaxRuns
  /\ \E label \in ui.widgets \cap DatasetButtons :
       args' = [args EXCEPT !.trigger = label]
  /\ pc' = "rerun"
  /\ UNCHANGED <<streamlit, page, entry, flags, df, err, prob_dict, ui, locals>>

\* The user changes the minimum magnitude or the keyword, or chooses
\* another study in the selectbox
DatasetChange ==
  /\ page = "dataset"
  /\ pc = "idle"
  /\ streamlit.requests < MaxRuns
  /\ \/ \E v \in MagnitudeInputs \ {args.min_magnitude} :
          args' = [args EXCEPT !.trigger = "Minimum Magnitude",
                               !.min_magnitude = v]
     \/ \E v \in KeywordInputs \ {args.keyword} :
          args' = [args EXCEPT !.trigger = "Search Keyword:", !.keyword = v]
     \/ /\ "Select a Study to Retrieve:" \in ui.widgets
        /\ \E i \in 1..Len(ui.options) :
             /\ ui.options[i] # args.selected_label
             /\ args' = [args EXCEPT !.trigger = "Select a Study to Retrieve:",
                                     !.selected_label = ui.options[i]]
  /\ pc' = "rerun"
  /\ UNCHANGED <<streamlit, page, entry, flags, df, err, prob_dict, ui, locals>>

\* Streamlit runs main of app.py: on the first load, and after every
\* interaction
AppRun ==
  /\ page = "app"
  /\ entry = "main"
  /\ pc = "rerun"
  /\ \E r \in {app_main(args, streamlit, o) :
                  o \in PageOutcomes(args.num_samples, args.variation)} :
       /\ streamlit' = r.st
       /\ df' = r.df
       /\ ui' = r.sc
  /\ pc' = "idle"
  /\ UNCHANGED <<page, entry, args, flags, err, prob_dict, locals>>

\* The user presses a button that is on the Basic Statistics page
AppPress ==
  /\ page = "app"
  /\ entry = "main"
  /\ pc = "idle"
  /\ streamlit.generated < MaxRuns
  /\ \E label \in ui.widgets \cap {GenerateLabel, "Download CSV"} :
       args' = [args EXCEPT !.trigger = label]
  /\ pc' = "rerun"
  /\ UNCHANGED <<streamlit, page, entry, flags, df, err, prob_dict, ui, locals>>

\* The user moves a slider of the Basic Statistics page
AppChange ==
  /\ page = "app"
  /\ entry = "main"
  /\ pc = "idle"
  /\ streamlit.generated < MaxRuns
  /\ \/ \E v \in SampleInputs \ {args.num_samples} :
          args' = [args EXCEPT !.trigger = "Number of Samples",
                               !.num_samples = v]
     \/ \E v \in VariationInputs \ {args.variation} :
          args' = [args EXCEPT !.trigger = "Variation (Outliers)",
                               !.variation = v]
  /\ pc' = "rerun"
  /\ UNCHANGED <<streamlit, page, entry, flags, df, err, prob_dict, ui, locals>>

\* The fuzzy script of tutorial7.py: low_vals, medium_vals, high_vals
MembershipScript7 ==
  /\ page = "tutorial7"
  /\ pc = "elevations"
  /\ locals' = FuzzyValues(7, args.dtype, args.num)
  /\ pc' = "computed"
  /\ UNCHANGED <<streamlit, page, entry, args, flags, df, err, prob_dict, ui>>

\* df = classify_elevation(df, low_mf, med_mf, high_mf)
ClassifyElevation ==
  /\ page = "tutorial8"
  /\ entry = "call"
  /\ pc = "elevations"
  /\ LET r == classify_elevation(df, args.dtype, args.num)
     IN  /\ locals' = r.locals @@ [returned |-> r.returned]
         /\ df' = r.df
  /\ pc' = "classified"
  /\ UNCHANGED <<streamlit, page, entry, args, flags, err, prob_dict, ui>>

\* The classification script shown by tutorial8.py
ClassificationScript8 ==
  /\ page = "tutorial8"
  /\ entry = "script"
  /\ pc = "elevations"
  /\ LET r == classification_script(df, args.dtype, args.num)
     IN  /\ locals' = r.locals
         /\ df' = r.df
  /\ pc' = "classified"
  /\ UNCHANGED <<streamlit, page, entry, args, flags, err, prob_dict, ui>>

\* The Bayesian script of tutorial7.py, from the loaded column to the
\* posterior mean
BayesianScript ==
  /\ page = "tutorial7_bayesian"
  /\ pc = "loaded"
  /\ locals' = bayesian_script(Column(df, "elevation"))
  /\ pc' = "updated"
  /\ UNCHANGED <<streamlit, page, entry, args, flags, df, err, prob_dict, ui>>

\* df = generate_dataset(num_samples, foram_std, variation)
GenerateDataset ==
  /\ page = "app"
  /\ entry = "call"
  /\ pc = "call"
  /\ \E foram_raw \in NormalOutcomes(args.num_samples, ForamDraws, 10) :
     \E calcite_raw \in NormalOutcomes(args.num_samples, CalciteDraws, 100) :
     \E ch \in choice(args.num_samples, args.variation) :
       IF ch.err # NoError
       THEN /\ err' = ch.err
            /\ pc' = "raised"
            /\ UNCHANGED <<df, locals>>
       ELSE \E draws \in DrawOutcomes(args.variation) :
              LET r == generate_dataset(args.num_samples, foram_raw,
                                        calcite_raw, ch.value, draws)
              IN  /\ df' = r.df
                  /\ locals' = r.locals
                  /\ pc' = "returned"
                  /\ UNCHANGED err
  /\ UNCHANGED <<streamlit, page, entry, args, flags, prob_dict, ui>>

Next ==
  \/ CreateDataset
  \/ CalculateProbabilities
  \/ AxiomGuard
  \/ GenerateRandomDrillholes
  \/ AxiomShowDataset
  \/ AxiomProbabilities
  \/ ModeScript2
  \/ ConditionalScript6
  \/ DatasetRun
  \/ DatasetPress
  \/ DatasetChange
  \/ AppRun
  \/ AppPress
  \/ AppChange
  \/ MembershipScript7
  \/ ClassifyElevation
  \/ ClassificationScript8
  \/ BayesianScript
  \/ GenerateDataset

Spec == Init /\ [][Next]_vars

\* Streamlit does run dataset.py after an interaction on its page: the run
\* of the page is weakly fair (a session stays on the page it starts on)
LiveSpec == Init /\ [][Next]_vars /\ WF_vars(DatasetRun)

(***************************************************************************)
(* Properties of calculate_probabilities (prob.py).                        *)
(***************************************************************************)
Calculated == page = "prob" /\ pc = "calculated"

\* An int or a float: anything else a measure could be (None, NaN, a text)
\* is a marker that the measure is undefined
IsNumber(v) == v.t \in {"int", "float"}

IsUndefinedMarker(v) == ~IsNumber(v)

\* The number m * 2^e, written exactly
Dyadic(m, e) == [t |-> "float", s |-> 0, m |-> BFromInt(m), e |-> e]

\* v * 10^9, exactly
TimesBillion(v) ==
  [v EXCEPT !.m = BMulSmall(BMulSmall(BMulSmall(v.m, 1000), 1000), 1000)]

Abs(v) == [v EXCEPT !.s = 0]

\* P(A or B) - (P(A) + P(B) - P(A and B)) of a returned dictionary, in
\* exact arithmetic
AdditionRuleGap(d) ==
  ExactAdd(d.pA_or_B,
           Neg(ExactAdd(ExactAdd(d.pA, d.pB), Neg(d.pA_and_B))))

\* C1: on every table with at least one row, the returned P(A or B) is
\* within 1e-9 of P(A) + P(B) - P(A and B), the other values returned.
C1_AdditionRuleLaw ==
  (Calculated /\ NumRows(df) > 0) =>
    NumLeq(TimesBillion(Abs(AdditionRuleGap(prob_dict))), Dyadic(1, 0))

\* C1 witness: a table with fossils of both kinds together whose P(A or B)
\* differs from the exact sum by a rounding error.
C1_Witness ==
  /\ Calculated
  /\ NumRows(df) > 0
  /\ ~IsZero(prob_dict.pA_and_B)
  /\ ~IsZero(AdditionRuleGap(prob_dict))

InUnitInterval(v) ==
  IsNumber(v) /\ NumLeq(Dyadic(0, 0), v) /\ NumLeq(v, Dyadic(1, 0))

\* C2: every measure returned lies in [0,1] or is the undefined marker.
C2_ProbabilityBounds ==
  Calculated =>
    \A v \in {prob_dict.pA, prob_dict.pB, prob_dict.pA_and_B,
              prob_dict.pA_or_B, prob_dict.pB_given_A} :
      InUnitInterval(v) \/ IsUndefinedMarker(v)

\* No row of the table has FossilA = Yes
NoFossilA == \A i \in 1..NumRows(df) : Column(df, "FossilA")[i] # "Yes"

\* C3: on a table with rows none of which has FossilA, P(B|A) is returned
\* as an undefined marker, which differs from 0.0.
C3_UndefinedConditional ==
  (Calculated /\ NumRows(df) > 0 /\ NoFossilA) =>
    IsUndefinedMarker(prob_dict.pB_given_A)

IsScenario(a) ==
  /\ a.fn = "create_dataset"
  /\ a.num_layers = ScenarioLayers
  /\ a.count_A = ScenarioA
  /\ a.count_B = ScenarioB
  /\ a.overlap_AB = ScenarioOverlap

\* C4: the 12-layer scenario (6 with A, 6 with B, 3 with both, any number
\* of sandstone layers) gives exactly P(A) = 0.5, P(B) = 0.5,
\* P(A and B) = 0.25, P(A or B) = 0.75 and P(B|A) = 0.5.
C4_ScenarioFigures ==
  (Calculated /\ IsScenario(args)) =>
    /\ NumEq(prob_dict.pA, Dyadic(1, -1))
    /\ NumEq(prob_dict.pB, Dyadic(1, -1))
    /\ NumEq(prob_dict.pA_and_B, Dyadic(1, -2))
    /\ NumEq(prob_dict.pA_or_B, Dyadic(3, -2))
    /\ NumEq(prob_dict.pB_given_A, Dyadic(1, -1))

\* C4 witness: the scenario calculated after a shuffle that moved the
\* first layer out of the fossil-A layers, with some sandstone.
C4_Witness ==
  /\ Calculated
  /\ IsScenario(args)
  /\ args.count_sandstone = 5
  /\ ~flags.fossilA[1]
  /\ flags.sandstone_flags[1]

\* C5: on a table without rows, all five measures are returned as the
\* undefined marker, which differs from the number 0.
C5_EmptyTableUndefined ==
  (Calculated /\ NumRows(df) = 0) =>
    \A v \in {prob_dict.pA, prob_dict.pB, prob_dict.pA_and_B,
              prob_dict.pA_or_B, prob_dict.pB_given_A} :
      IsUndefinedMarker(v)

(***************************************************************************)
(* Properties of create_dataset (prob.py).                                 *)
(***************************************************************************)
CountYes(col) == Cardinality({i \in 1..Len(col) : col[i] = "Yes"})

CountBothYes(a, b) ==
  Cardinality({i \in 1..Len(a) : a[i] = "Yes" /\ b[i] = "Yes"})

\* C6: a dataset returned by create_dataset has num_layers rows, count_A of
\* them with FossilA, count_B with FossilB and overlap_AB with both.
C6_ExactCounts ==
  (page = "prob" /\ pc = "returned") =>
    /\ NumRows(df) = args.num_layers
    /\ CountYes(Column(df, "FossilA")) = args.count_A
    /\ CountYes(Column(df, "FossilB")) = args.count_B
    /\ CountBothYes(Column(df, "FossilA"), Column(df, "FossilB"))
         = args.overlap_AB

\* What the validation of create_dataset is to refuse
InvalidCounts(a) ==
  \/ a.overlap_AB > a.count_A
  \/ a.overlap_AB > a.count_B
  \/ a.count_A > a.num_layers
  \/ a.count_B > a.num_layers
  \/ a.count_sandstone > a.num_layers

\* C9: called with an overlap above count_A or count_B, or a count above
\* num_layers, create_dataset ends with an error, with no flag assigned
\* and no dataset returned.
C9_InvalidCountsRaise ==
  (page = "prob" /\ args.fn = "create_dataset" /\ InvalidCounts(args)
     /\ pc # "call") =>
    /\ pc = "raised"
    /\ err \in {OverlapError, CountsError}
    /\ flags = Unassigned
    /\ ~df.exists
    /\ prob_dict = NoResult

\* C9 witness: only the sandstone count is too large, and the call raised.
C9_Witness ==
  /\ page = "prob"
  /\ pc = "raised"
  /\ err = CountsError
  /\ args.count_sandstone > args.num_layers
  /\ args.overlap_AB <= args.count_A
  /\ args.overlap_AB <= args.count_B
  /\ args.count_A <= args.num_layers
  /\ args.count_B <= args.num_layers

\* C10: calculate_probabilities leaves the table it is given as it was:
\* the same columns with the same values.
C10_TableUnchanged ==
  [][(page = "prob" /\ pc \in {"returned", "table"}) => df' = df]_vars

(***************************************************************************)
(* Properties of the drill-hole generation (axiom.py).                     *)
(***************************************************************************)
CountLabel(col, label) == Cardinality({i \in 1..Len(col) : col[i] = label})

Assigned(a) == a.n_high + a.n_medium + a.n_low

Ended == pc \notin {"start", "call"}

\* C7: with n_high + n_medium + n_low <= total_holes the call returns
\* total_holes rows: n_high 'High', n_medium 'Medium', n_low 'Low' and the
\* rest 'Unassigned', whatever the shuffle.
C7_DrillholeCounts ==
  (page = "axiom" /\ Ended /\ Assigned(args) <= args.total_holes) =>
    /\ err = NoError
    /\ df.exists
    /\ NumRows(df) = args.total_holes
    /\ CountLabel(Column(df, "Grade Category"), "High") = args.n_high
    /\ CountLabel(Column(df, "Grade Category"), "Medium") = args.n_medium
    /\ CountLabel(Column(df, "Grade Category"), "Low") = args.n_low
    /\ CountLabel(Column(df, "Grade Category"), "Unassigned")
         = args.total_holes - Assigned(args)

\* C7 witness: 12 holes with 6 High, 2 Medium, 1 Low, returned in an order
\* that does not start with a High hole.
C7_Witness ==
  /\ page = "axiom"
  /\ pc = "returned"
  /\ args = DrillArgs(12, 6, 2, 1)
  /\ Column(df, "Grade Category")[1] = "Unassigned"
  /\ CountLabel(Column(df, "Grade Category"), "Unassigned") = 3

Elements == 1..Len(args.num)

\* The memberships of the script of tutorial7.py are computed
Computed7 == page = "tutorial7" /\ pc = "computed"

\* The classification of tutorial8.py is done
Classified8 == page = "tutorial8" /\ pc = "classified"

Is(v, n) == NumEq(v, PyInt(n))

Within(v, lo, hi) == NumLeq(PyInt(lo), v) /\ NumLeq(v, PyInt(hi))

\* C11: the Upland membership of tutorial7.py is 0 at 395, 1 at 400 and 0
\* at 405, does not decrease from 395 to 400 and does not increase from 400
\* to 405.
C11_TriangularShape ==
  Computed7 =>
    /\ \A i \in Elements :
         /\ Is(locals.elevations[i], 395) => Is(locals.med_vals[i], 0)
         /\ Is(locals.elevations[i], 400) => Is(locals.med_vals[i], 1)
         /\ Is(locals.elevations[i], 405) => Is(locals.med_vals[i], 0)
    /\ \A i, j \in Elements :
         NumLeq(locals.elevations[i], locals.elevations[j]) =>
           /\ (Within(locals.elevations[i], 395, 400)
               /\ Within(locals.elevations[j], 395, 400))
                => NumLeq(locals.med_vals[i], locals.med_vals[j])
           /\ (Within(locals.elevations[i], 400, 405)
               /\ Within(locals.elevations[j], 400, 405))
                => NumLeq(locals.med_vals[j], locals.med_vals[i])

\* C11 witness: real-typed elevations around the peak: 400 itself with
\* degree 1 between two elevations of a degree strictly between 0 and 1.
C11_Witness ==
  /\ Computed7
  /\ args.dtype = "float64"
  /\ Len(args.num) = 3
  /\ Is(locals.elevations[2], 400)
  /\ Is(locals.med_vals[2], 1)
  /\ \A i \in {1, 3} : /\ NumCmp(locals.med_vals[i], PyInt(0)) > 0
                       /\ NumCmp(locals.med_vals[i], PyInt(1)) < 0

\* |x - y| <= c * 1e-9, exactly
Close(x, y, c) ==
  NumLeq(TimesBillion(Abs(ExactAdd(x, Neg(y)))), PyInt(c))

\* v * c, exactly, for a positive int c of one limb
ScaleBy(v, c) == [s |-> v.s, m |-> BMulSmall(v.m, c), e |-> v.e]

\* The degree d is the piecewise-linear degree of the elevation v for the
\* triangle (a, p, b), within 1e-9
IsTriangular(a, p, b, v, d) ==
  IF NumCmp(v, PyInt(a)) > 0 /\ NumLeq(v, PyInt(p))
  THEN Close(ScaleBy(d, p - a), ExactAdd(v, Neg(PyInt(a))), p - a)
  ELSE IF NumCmp(v, PyInt(p)) > 0 /\ NumCmp(v, PyInt(b)) < 0
  THEN Close(ScaleBy(d, b - p), ExactAdd(PyInt(b), Neg(v)), b - p)
  ELSE IsZero(d)

\* C12: for integer-typed and real-typed arrays alike, medium_membership of
\* tutorial8.py gives every element v the degree (v-380)/15 for
\* 380 < v <= 395, (410-v)/15 for 395 < v < 410, and 0 otherwise.
C12_MediumPiecewiseLinear ==
  Classified8 =>
    \A i \in Elements :
      IsTriangular(380, 395, 410, locals.elevations[i], locals.med_vals[i])

\* C13: every degree the three membership functions return is in [0,1].
C13_DegreesInUnitInterval ==
  (page \in {"tutorial7", "tutorial8"} /\ locals.set) =>
    \A i \in Elements :
      /\ InUnitInterval(locals.low_vals[i])
      /\ InUnitInterval(locals.med_vals[i])
      /\ InUnitInterval(locals.high_vals[i])

Fractional(d) == NumCmp(d, PyInt(0)) > 0 /\ NumCmp(d, PyInt(1)) < 0

\* C13 witness: an elevation above 390, where the line of low has left
\* [0,1] and is clipped to 0, with a fraction as its medium degree.
C13_Witness ==
  /\ Classified8
  /\ args.dtype = "float64"
  /\ \E i \in Elements : /\ NumCmp(locals.elevations[i], PyInt(390)) > 0
                         /\ Is(locals.low_vals[i], 0)
                         /\ Fractional(locals.med_vals[i])

\* C14: low and high are never both non-zero, so that at most two
\* categories are non-zero and they are adjacent; with the thresholds of
\* tutorial8.py and with those of tutorial7.py.
C14_AdjacentCategories ==
  (page \in {"tutorial7", "tutorial8"} /\ locals.set) =>
    \A i \in Elements :
      IsZero(locals.low_vals[i]) \/ IsZero(locals.high_vals[i])

\* C14 witness: one array where low and medium are both non-zero at an
\* elevation and medium alone at the next.
C14_Witness ==
  /\ page \in {"tutorial7", "tutorial8"}
  /\ locals.set
  /\ \E i \in Elements : /\ ~IsZero(locals.low_vals[i])
                         /\ ~IsZero(locals.med_vals[i])
  /\ \E i \in Elements : /\ IsZero(locals.low_vals[i])
                         /\ ~IsZero(locals.med_vals[i])
                         /\ IsZero(locals.high_vals[i])

\* The degrees of element i in the declared order Plain, Upland, Mountainous
Degrees(i) ==
  <<locals.low_vals[i], locals.med_vals[i], locals.high_vals[i]>>

\* C15: every row gets the category of maximum degree, and of the
\* categories that tie for the maximum the one declared first: Plain at
\* 386 when low = medium, Upland at 401 when medium = high.
C15_MaximumFirstDeclared ==
  Classified8 =>
    \A i \in Elements :
      \E c \in 1..3 :
        /\ Column(df, "fuzzy_class")[i] = ClassLabels[c]
        /\ \A d \in 1..3 : NumLeq(Degrees(i)[d], Degrees(i)[c])
        /\ \A d \in 1..(c - 1) : NumCmp(Degrees(i)[d], Degrees(i)[c]) < 0

\* C15 witness: 401 with medium = high = 0.6, classified Upland.
C15_Witness ==
  /\ Classified8
  /\ \E i \in Elements :
       /\ Is(locals.elevations[i], 401)
       /\ NumEq(locals.med_vals[i], locals.high_vals[i])
       /\ Fractional(locals.med_vals[i])
       /\ Column(df, "fuzzy_class")[i] = "Upland"

(***************************************************************************)
(* Properties of the Bayesian script (tutorial7.py).                       *)
(***************************************************************************)
Updated == page = "tutorial7_bayesian" /\ pc = "updated"

\* The number of observed elevations above the threshold, counted on the
\* loaded column
Above ==
  Cardinality({i \in 1..Len(args.elev) :
                 NumCmp(args.elev[i], PyInt(Threshold)) > 0})

\* C16: with the prior (1,1), N observations and s successes give
\* failures = N - s, the posterior (1 + s, 1 + N - s), both at least the
\* prior's, and the posterior mean a / (a + b); no observation gives the
\* posterior (1,1) and the mean 0.5.
C16_BetaUpdate ==
  Updated =>
    /\ locals.successes = Above
    /\ locals.failures = Len(args.elev) - Above
    /\ locals.a_post = 1 + Above
    /\ locals.b_post = 1 + (Len(args.elev) - Above)
    /\ locals.a_post >= 1
    /\ locals.b_post >= 1
    /\ Close(ScaleBy(locals.posterior_mean, locals.a_post + locals.b_post),
             PyInt(locals.a_post), locals.a_post + locals.b_post)
    /\ Len(args.elev) = 0 =>
         /\ locals.a_post = 1
         /\ locals.b_post = 1
         /\ NumEq(locals.posterior_mean, Dyadic(1, -1))

\* C16 witness: three observations, two of them above the threshold: the
\* posterior (3, 2).
C16_Witness ==
  /\ Updated
  /\ Len(args.elev) = 3
  /\ locals.successes = 2
  /\ locals.a_post = 3
  /\ locals.b_post = 2

\* generate_dataset has returned its DataFrame
Returned == page = "app" /\ pc = "returned"

\* The row numbers (from 1) of the rows the outliers were put in
Chosen == {locals.outlier_indices[j] + 1 : j \in 1..Len(locals.outlier_indices)}

ForamCount(i) == Column(df, "Foraminifera_Count")[i]

CalcitePercentage(i) == Column(df, "Calcite_Percentage")[i]

\* Row i holds its clipped, rounded base values
KeepsBase(i) ==
  /\ ForamCount(i) = locals.base_foram[i]
  /\ NumEq(CalcitePercentage(i), locals.base_calcite[i])

\* Foraminifera_Count of row i was raised by 50..199
Raised(i) ==
  /\ ForamCount(i) - locals.base_foram[i] \in 50..199
  /\ NumEq(CalcitePercentage(i), locals.base_calcite[i])

\* Calcite_Percentage of row i was lowered by one of 20..44
Lowered(i) ==
  /\ ForamCount(i) = locals.base_foram[i]
  /\ \E r \in 20..44 :
       NumEq(CalcitePercentage(i), FSub(locals.base_calcite[i], PyInt(r)))

\* Calcite_Percentage of row i was lowered by one of 20..44, but not below 0
LoweredToFloor(i) ==
  /\ ForamCount(i) = locals.base_foram[i]
  /\ \E r \in 20..44 :
       Bind(FSub(locals.base_calcite[i], PyInt(r)), LAMBDA lowered :
         IF NumCmp(lowered, PyInt(0)) > 0
         THEN NumEq(CalcitePercentage(i), lowered)
         ELSE Is(CalcitePercentage(i), 0))

\* Exactly `variation` different rows are chosen, and the rows not chosen
\* keep their base values: a count of at least 0 and a percentage of 0..100
ChosenRows ==
  /\ Len(locals.outlier_indices) = args.variation
  /\ Cardinality(Chosen) = args.variation
  /\ Chosen \subseteq 1..args.num_samples
  /\ \A i \in (1..args.num_samples) \ Chosen :
       /\ KeepsBase(i)
       /\ ForamCount(i) >= 0
       /\ Within(CalcitePercentage(i), 0, 100)
  /\ \A i \in Chosen : ~KeepsBase(i)

\* C18, as stated: generate_dataset with 0 <= variation <= num_samples
\* chooses exactly `variation` different rows and perturbs exactly those,
\* each by raising Foraminifera_Count by 50..199 or by lowering
\* Calcite_Percentage by 20..44; the other rows keep their clipped, rounded
\* base values.
C18_OutliersPerturbed ==
  Returned => ChosenRows /\ \A i \in Chosen : Raised(i) \/ Lowered(i)

\* C18, amended: as stated, except that Calcite_Percentage is lowered by
\* 20..44 but not below 0 (the new value is the larger of 0 and the lowered
\* value).
C18_OutliersPerturbedToFloor ==
  Returned => ChosenRows /\ \A i \in Chosen : Raised(i) \/ LoweredToFloor(i)

\* 100 rows and 5 outliers were asked for, and a chosen row was lowered to
\* the floor of 0
C18_Witness ==
  /\ Returned
  /\ args.num_samples = 100
  /\ args.variation = 5
  /\ Cardinality(Chosen) = 5
  /\ Cardinality({i \in 1..args.num_samples : KeepsBase(i)}) = 95
  /\ \E i \in Chosen : Is(CalcitePercentage(i), 0)

\* C19: generate_dataset fails with an error and returns no dataset whenever
\* variation is greater than num_samples.
C19_TooManyOutliersFail ==
  (page = "app" /\ args.variation > args.num_samples /\ pc # "call")
    => (pc = "raised" /\ err # NoError /\ ~df.exists)

\* More outliers than rows were asked of one row or more, and the call raised
C19_Witness ==
  /\ page = "app"
  /\ args.num_samples >= 1
  /\ args.variation > args.num_samples
  /\ pc = "raised"

\* C20: for num_samples >= 1 and 0 <= variation <= num_samples,
\* generate_dataset returns exactly num_samples rows of the same four fields,
\* with the Sample_ID values S1..S<num_samples>, all different, and Depth_m
\* equal to 100 + the row index for the row indices 0..num_samples-1.
C20_RowsAndIdentifiers ==
  (Returned /\ args.num_samples >= 1) =>
    /\ df.exists
    /\ df.columns = <<"Sample_ID", "Depth_m", "Foraminifera_Count",
                      "Calcite_Percentage">>
    /\ Len(df.data) = 4
    /\ \A k \in 1..4 : Len(df.data[k]) = args.num_samples
    /\ \A i \in 1..args.num_samples :
         /\ Column(df, "Sample_ID")[i] = "S" \o Str(i)
         /\ Column(df, "Depth_m")[i] = 100 + (i - 1)
    /\ \A i, j \in 1..args.num_samples :
         i # j => Column(df, "Sample_ID")[i] # Column(df, "Sample_ID")[j]

\* 100 rows were returned, the last one being S100 at depth 199
C20_Witness ==
  /\ Returned
  /\ args.num_samples = 100
  /\ Column(df, "Sample_ID")[100] = "S100"
  /\ Column(df, "Depth_m")[100] = 199

\* C21: in every dataset generate_dataset returns, the rows changed by the
\* outliers included, Foraminifera_Count is at least 0 and
\* Calcite_Percentage is within 0..100.
C21_ValidRanges ==
  Returned =>
    \A i \in 1..args.num_samples :
      /\ ForamCount(i) >= 0
      /\ Within(CalcitePercentage(i), 0, 100)

\* A returned dataset has a count that was clipped to 0 and a percentage
\* that an outlier lowered to 0
C21_Witness ==
  /\ Returned
  /\ args.num_samples <= MaxSamples
  /\ \E i \in 1..args.num_samples : ForamCount(i) = 0
  /\ \E i \in Chosen :
       /\ Is(CalcitePercentage(i), 0)
       /\ NumCmp(locals.base_calcite[i], PyInt(0)) > 0

(***************************************************************************)
(* Properties of the probabilities of axiom.py.                            *)
(***************************************************************************)
\* The page has displayed the probabilities
Displayed == page = "axiom" /\ entry = "main" /\ pc = "displayed"

\* C22: for every total_holes and every counts the guard accepts with at
\* least one assigned hole, the displayed p_high, p_medium and p_low are not
\* negative, and their sum is within 1e-9 of 1 and not above 1.
C22_ProbabilitiesSumToOne ==
  (Displayed /\ locals.assigned_total > 0) =>
    /\ \A p \in {locals.p_high, locals.p_medium, locals.p_low} :
         NumLeq(PyInt(0), p)
    /\ NumLeq(locals.total_prob, PyInt(1))
    /\ Close(locals.total_prob, PyInt(1), 1)

(***************************************************************************)
(* Properties of the mode of tutorial2.py.                                 *)
(***************************************************************************)
Printed2 == page = "tutorial2" /\ pc = "printed"

\* C23: the mode of the magnitudes is the "no unique mode" text, and no
\* number, whenever no value is repeated or several values are equally the
\* most frequent; it is the modal value only when exactly one value is the
\* most frequent.  (A column of one magnitude has that magnitude as its one
\* most frequent value.)
C23_NoUniqueModeSentinel ==
  Printed2 =>
    IF Cardinality(MostFrequent(args.magnitudes)) = 1
    THEN /\ locals.mode_mag.t = "number"
         /\ MostFrequent(args.magnitudes) = {locals.mode_mag.tenths}
    ELSE locals.mode_mag = [t |-> "str", text |-> NoModeText]

(***************************************************************************)
(* More properties of classify_elevation (tutorial8.py).                   *)
(***************************************************************************)
\* classify_elevation was called and has returned
ClassifyReturned == Classified8 /\ entry = "call"

\* C24: classify_elevation returns a new DataFrame that has the column
\* 'fuzzy_class', and the DataFrame the caller passed is as it was: no
\* column added, and not the object returned.
C24_CallerFrameUnchanged ==
  ClassifyReturned =>
    /\ HasColumn(locals.returned.frame, "fuzzy_class")
    /\ locals.returned.ref # ArgumentRef
    /\ df = ElevationFrame(args)
    /\ ~HasColumn(df, "fuzzy_class")

(***************************************************************************)
(* Properties of the Data Explorer page (dataset.py).                      *)
(***************************************************************************)
\* 'Retrieve Study Data' was pressed with the study of this id chosen, and
\* the run the press causes is due
RetrievePressed(id) ==
  /\ page = "dataset"
  /\ pc = "rerun"
  /\ args.trigger = "Retrieve Study Data"
  /\ args.selected_label = StudyLabel(Study(id))

\* fetch_study_details was called for the study of this id
DetailsFetched(id) == <<"fetch_study_details", id>> \in streamlit.calls

\* C25: once a press of 'Search Studies' has listed studies, choosing one
\* and pressing 'Retrieve Study Data' leads to a call of
\* fetch_study_details for the chosen study.
C25_RetrieveFetchesDetails ==
  \A id \in {3, 7} : RetrievePressed(id) ~> DetailsFetched(id)

\* The arguments fetch_earthquake_data is called with
FetchKey == <<"fetch_earthquake_data", <<"2024-01-01", "2024-02-01", args.min_magnitude>>>>

\* The run that a press of 'Fetch Earthquake Data' causes
FetchRun ==
  /\ page = "dataset"
  /\ pc = "rerun"
  /\ args.trigger = "Fetch Earthquake Data"
  /\ pc' = "idle"

\* C29: after fetch_earthquake_data got a response other than 200 for its
\* arguments and returned None with its error, a later call with the same
\* arguments makes a new HTTP request.
C29_FailedFetchRetried ==
  [][(FetchRun /\ FetchKey \in streamlit.failed)
       => streamlit'.requests = streamlit.requests + 1]_vars

(***************************************************************************)
(* Properties of the Basic Statistics page (app.py, basic.py).             *)
(***************************************************************************)
\* A run of the page
PageRun == page = "app" /\ entry = "main" /\ pc = "rerun" /\ pc' = "idle"

\* C26: in every run of the page that a press of 'Generate & Analyze
\* Dataset' caused a dataset is generated anew and shown; every other run
\* (a slider moved, 'Download CSV' pressed, the first load) generates none,
\* holds none and shows the warning only.
C26_DatasetOnlyInItsRun ==
  [][PageRun =>
       IF args.trigger = GenerateLabel
       THEN /\ df'.exists
            /\ ui'.dataframe = DfHead(df', 10)
            /\ streamlit'.generated = streamlit.generated + 1
            /\ GenerateWarning \notin ui'.messages
       ELSE /\ ~df'.exists
            /\ ~ui'.dataframe.exists
            /\ "Download CSV" \notin ui'.widgets
            /\ streamlit'.generated = streamlit.generated
            /\ ui'.messages = {GenerateWarning}]_vars

\* 'Download CSV' was pressed after a dataset was generated, and the run it
\* caused shows the warning and no dataset
C26_Witness ==
  /\ page = "app"
  /\ entry = "main"
  /\ pc = "idle"
  /\ args.trigger = "Download CSV"
  /\ streamlit.generated >= 1
  /\ ~ui.dataframe.exists
  /\ GenerateWarning \in ui.messages

(***************************************************************************)
(* Properties of the elevation_conditional script (tutorial6.py).          *)
(***************************************************************************)
Printed6 == page = "tutorial6" /\ pc = "printed"

\* C27: whenever P(A) > 0 the reported P(B|A) is P(A and B) / P(A), within
\* 1e-9, also when P(B) = 0; it is NaN only when P(A) = 0 (or there is no
\* record).
C27_BayesEqualsDefinition ==
  Printed6 =>
    IF CountTrue(locals.A) > 0
    THEN /\ locals.P_B_given_A.t = "float"
         /\ Close(ScaleBy(locals.P_B_given_A, CountTrue(locals.A)),
                  PyInt(CountTrue([i \in 1..locals.total |->
                                     locals.A[i] /\ locals.B[i]])),
                  CountTrue(locals.A))
    ELSE locals.P_B_given_A = NaN

(***************************************************************************)
(* More properties of calculate_probabilities (prob.py).                   *)
(***************************************************************************)
\* The number of rows with FossilA = Yes or FossilB = Yes
CountEitherYes ==
  Cardinality({i \in 1..NumRows(df) :
                 Column(df, "FossilA")[i] = "Yes" \/ Column(df, "FossilB")[i] = "Yes"})

\* P(A or B) is the fraction of rows with one of the fossils, within 1e-9
C28_UnionIsDirectCount ==
  Close(ScaleBy(prob_dict.pA_or_B, NumRows(df)), PyInt(CountEitherYes),
        NumRows(df))

\* max(P(A), P(B)) <= P(A or B) <= 1 and P(A and B) <= min(P(A), P(B))
C28_UnionBounds ==
  /\ NumLeq(prob_dict.pA, prob_dict.pA_or_B)
  /\ NumLeq(prob_dict.pB, prob_dict.pA_or_B)
  /\ NumLeq(prob_dict.pA_or_B, PyInt(1))
  /\ NumLeq(prob_dict.pA_and_B, prob_dict.pA)
  /\ NumLeq(prob_dict.pA_and_B, prob_dict.pB)

\* C28: on every table with at least one row, the P(A or B) that
\* calculate_probabilities takes from the addition rule is the fraction of
\* rows with FossilA = Yes or FossilB = Yes, and max(P(A), P(B)) <=
\* P(A or B) <= 1 and P(A and B) <= min(P(A), P(B)).
C28_UnionConsistent ==
  (Calculated /\ NumRows(df) > 0) => (C28_UnionIsDirectCount /\ C28_UnionBounds)

(***************************************************************************)
(* The order of the classes of classify_elevation (tutorial8.py).          *)
(***************************************************************************)
\* The place of the class of element i in labels: Plain 1, Upland 2,
\* Mountainous 3
ClassIndex(i) ==
  CHOOSE c \in 1..3 : ClassLabels[c] = Column(df, "fuzzy_class")[i]

\* The class never goes down when the elevation goes up
ClassesMonotone ==
  \A i \in Elements : \A j \in Elements :
    NumLeq(locals.elevations[i], locals.elevations[j]) =>
      ClassIndex(i) <= ClassIndex(j)

\* Every element has a degree above 0
SomeDegreePositive ==
  \A i \in Elements : \E c \in 1..3 : NumCmp(Degrees(i)[c], PyInt(0)) > 0

\* C30: with the breakpoints 380/390/395/405/410 the class assigned by
\* classify_elevation never goes down as the elevation goes up (in the order
\* Plain, Upland, Mountainous), and every elevation has at least one degree
\* above 0, so that no class comes from a tie of three zeros.
C30_MonotoneNeverAllZero ==
  Classified8 => (ClassesMonotone /\ SomeDegreePositive)

====
